---- MODULE Spec2Model ----
(***************************************************************************)
(* A model of notion-to-markdown: the file cache (internal/renderer/       *)
(* file_cache.go), the metadata / front-matter builder and the recursive   *)
(* block renderer (renderer.go in its open-property-map variant) and the   *)
(* block formatters (block_types.go).                                      *)
(*                                                                         *)
(* Text is modelled as a sequence of characters (one-character strings);   *)
(* a few literals that no character-level test of the code can look into   *)
(* are kept as single symbols.  URLs are sequences of words, so that       *)
(* strings.Contains on a URL is membership of a word.                      *)
(***************************************************************************)
EXTENDS Integers, Sequences, FiniteSets, TLC

VARIABLES
    \* ---- file cache ----
    disk,       \* the cache files on disk: [dir, name] -> content
    call,       \* the last CacheFile call: arguments and results
    \* ---- metadata ----
    page,       \* the Notion page being rendered
    meta,       \* the metadata RenderPage parsed
    out,        \* what RenderPage returned: filename, front matter, body, error
    pagePath,   \* what GetPagePath returned
    \* ---- rendering ----
    blocks,     \* the page's top-level blocks, each with the environment's answers
    trace,      \* what the last RenderPage did: getChildren and CacheFile calls, pieces
    \* ---- functions on text ----
    arg,        \* the argument of the function under study; for main, the
                \* database and what the environment answers
    res,        \* what its last call returned
    \* ---- main ----
    run         \* main's position and locals, the files written, the calls made

vars == <<disk, call, page, meta, out, pagePath, blocks, trace, arg, res, run>>

NoVal == [t |-> "nil"]

(***************************************************************************)
(* Bounds of the model.                                                    *)
(***************************************************************************)
MaxFiles == 1      \* cache files the disk may hold
MaxProps == 2      \* properties a page may have
MaxBlocks == 3     \* blocks in the tree of a page
MaxFileBlocks == 2 \* top-level blocks of a page with files
MaxLen == 3        \* characters of a text given to a function on text
MaxTableCells == 5 \* cells of a table, all rows together
MaxPages == 2      \* pages of the database

(***************************************************************************)
(* Generic sequence helpers.                                               *)
(***************************************************************************)
Contains(s, w) == \E i \in DOMAIN s : s[i] = w

Range(s) == {s[i] : i \in DOMAIN s}

(***************************************************************************)
(* Text: sequences of characters, and the string functions of Go's         *)
(* strings package that the code uses.                                     *)
(***************************************************************************)
Uppers == <<"A", "B", "C", "D", "E", "F", "G", "H", "I", "J", "K", "L", "M",
            "N", "O", "P", "Q", "R", "S", "T", "U", "V", "W", "X", "Y", "Z">>
Lowers == <<"a", "b", "c", "d", "e", "f", "g", "h", "i", "j", "k", "l", "m",
            "n", "o", "p", "q", "r", "s", "t", "u", "v", "w", "x", "y", "z">>
Digits == {"0", "1", "2", "3", "4", "5", "6", "7", "8", "9"}

ToLowerCh(c) ==
    IF \E i \in DOMAIN Uppers : Uppers[i] = c
    THEN Lowers[CHOOSE i \in DOMAIN Uppers : Uppers[i] = c]
    ELSE c

\* strings.ToLower
ToLower(s) == [i \in DOMAIN s |-> ToLowerCh(s[i])]

\* strings.ReplaceAll(s, old, new) for a one-character old and a text new
RECURSIVE ReplaceAllCh(_, _, _)
ReplaceAllCh(s, old, new) ==
    IF s = <<>> THEN <<>>
    ELSE (IF Head(s) = old THEN new ELSE <<Head(s)>>) \o ReplaceAllCh(Tail(s), old, new)

RECURSIVE Filter(_, _)
Filter(s, keep) ==
    IF s = <<>> THEN <<>>
    ELSE (IF Head(s) \in keep THEN <<Head(s)>> ELSE <<>>) \o Filter(Tail(s), keep)

IsSpace(c) == c \in {" ", "\n", "\t"}

RECURSIVE TrimLeft(_)
TrimLeft(s) == IF s # <<>> /\ IsSpace(Head(s)) THEN TrimLeft(Tail(s)) ELSE s

RECURSIVE TrimRight(_)
TrimRight(s) ==
    IF s # <<>> /\ IsSpace(s[Len(s)]) THEN TrimRight(SubSeq(s, 1, Len(s) - 1)) ELSE s

\* strings.TrimSpace
TrimSpace(s) == TrimLeft(TrimRight(s))

\* index of the first occurrence of character c in s, 0 when there is none
IndexCh(s, c) ==
    IF Contains(s, c) THEN CHOOSE i \in DOMAIN s : s[i] = c /\ \A j \in 1..(i - 1) : s[j] # c
    ELSE 0

\* strings.Split(s, sep) for a one-character separator.
RECURSIVE SplitOn(_, _)
SplitOn(s, c) ==
    IF ~Contains(s, c) THEN <<s>>
    ELSE LET i == IndexCh(s, c)
         IN  <<SubSeq(s, 1, i - 1)>> \o SplitOn(SubSeq(s, i + 1, Len(s)), c)

\* strings.Join(parts, sep)
RECURSIVE JoinWith(_, _)
JoinWith(parts, sep) ==
    IF parts = <<>> THEN <<>>
    ELSE IF Len(parts) = 1 THEN Head(parts)
    ELSE Head(parts) \o sep \o JoinWith(Tail(parts), sep)

\* strings.TrimRight(s, c) for a one-character cutset.
RECURSIVE TrimRightCh(_, _)
TrimRightCh(s, c) ==
    IF s # <<>> /\ s[Len(s)] = c THEN TrimRightCh(SubSeq(s, 1, Len(s) - 1), c) ELSE s

HasPrefix(s, p) == Len(s) >= Len(p) /\ SubSeq(s, 1, Len(p)) = p

\* The concatenation of a sequence of texts.
RECURSIVE Concat(_)
Concat(ts) == IF ts = <<>> THEN <<>> ELSE Head(ts) \o Concat(Tail(ts))

SlugSafe == Range(Lowers) \cup Digits \cup {"-", "_"}

\* A variant of slugify that keeps every character.
slugify_Unfiltered(s) == ReplaceAllCh(ToLower(s), " ", <<"-">>)

\* slugify: lower-case, spaces to hyphens, every other character outside
\* [a-z0-9-_] dropped.
slugify(s) == Filter(ReplaceAllCh(ToLower(s), " ", <<"-">>), SlugSafe)

(***************************************************************************)
(* File cache (file_cache.go).                                             *)
(*                                                                         *)
(* A URL is [host, path, ext, query, bad]: host, path and query are        *)
(* sequences of words, ext is the suffix filepath.Ext finds on the path    *)
(* ("" when the last path element has no dot) and bad says that url.Parse  *)
(* rejects the URL (decided by the part before the query).                 *)
(***************************************************************************)
AwsHost == <<"s3", "amazonaws.com">>
Hosts == { AwsHost, <<"www", "notion.so">> }
UrlPaths == { <<"ws", "abc">> }
UrlExts == { "", ".png" }
Queries == { <<"sig1">>, <<"sig2", "image">> }

URLs ==
    { u \in [host : Hosts, path : UrlPaths, ext : UrlExts, query : Queries, bad : BOOLEAN] :
        /\ u.bad => (u.host = AwsHost /\ u.ext = ".png")
        /\ u.host # AwsHost => u.ext = "" }

\* The raw URL string, as the words it is made of.
URLString(u) ==
    u.host \o u.path \o (IF u.ext = "" THEN <<>> ELSE <<u.ext>>) \o u.query

\* extractFileIdentifier: the stable identifier the hash is taken of.
extractFileIdentifier(u) ==
    IF u.bad THEN URLString(u)
    ELSE IF Contains(u.host, "amazonaws.com")
         THEN u.path \o (IF u.ext = "" THEN <<>> ELSE <<u.ext>>)
         ELSE u.host \o u.path \o (IF u.ext = "" THEN <<>> ELSE <<u.ext>>)

\* extractExtension: the extension of the path, else a guess from the whole URL.
extractExtension(u) ==
    IF u.bad THEN ".bin"
    ELSE IF u.ext = ""
         THEN IF Contains(URLString(u), "image") THEN ".jpg"
              ELSE IF Contains(URLString(u), "video") THEN ".mp4"
              ELSE IF Contains(URLString(u), "pdf") THEN ".pdf"
              ELSE ".bin"
         ELSE u.ext

\* The first 8 hex characters of SHA-256(identifier), idealised as free of
\* collisions: the digest prefix is represented by the identifier it is taken of.
Hash8(id) == [sha |-> id]

\* generateFilename: hash[:8] + ext.
generateFilename(u) == [hash |-> Hash8(extractFileIdentifier(u)), ext |-> extractExtension(u)]

\* Paths are sequences of segments, each segment a text; filepath.Dir drops
\* the last one and filepath.Join concatenates, dropping empty segments.
PathDir(p) == IF Len(p) <= 1 THEN <<>> ELSE SubSeq(p, 1, Len(p) - 1)

RECURSIVE DropEmpty(_)
DropEmpty(p) ==
    IF p = <<>> THEN <<>>
    ELSE IF Head(p) = <<>> THEN DropEmpty(Tail(p))
    ELSE <<Head(p)>> \o DropEmpty(Tail(p))

PathJoin(a, b) == DropEmpty(a \o b)

\* A path as text: its segments joined by "/".
RECURSIVE PathText(_)
PathText(p) ==
    IF p = <<>> THEN <<>>
    ELSE IF Len(p) = 1 THEN Head(p)
    ELSE Head(p) \o <<"/">> \o PathText(Tail(p))

\* The segments of a path given as text.
SplitSlash(s) == SplitOn(s, "/")

IndexMd == <<"index.md">>
PostsSeg == <<"p", "o", "s", "t", "s">>

\* The base path of the file cache: the output directory of the run, and
\* "content" where a renderer is used without main.
BasePath == IF run = NoVal THEN << <<"content">> >> ELSE SplitSlash(run.outDir)

ArticlePaths == { PathText(<<PostsSeg, <<"a">>, IndexMd>>), PathText(<< <<"b">>, IndexMd>>) }

(***************************************************************************)
(* Pages and their properties (notionapi.Page, notionapi.Property).        *)
(***************************************************************************)
Str(v) == [t |-> "str", v |-> v]
List(v) == [t |-> "list", v |-> v]
Bool(b) == [t |-> "bool", v |-> b]

\* time.Time: a day, a clock time and a zone offset in hours; ZeroTime is the
\* zero value, for which IsZero() holds.
ZeroTime == [zero |-> TRUE]
Time(day, clock, zone) == [day |-> day, clock |-> clock, zone |-> zone]

\* t.Format("2006-01-02T15:04:05Z07:00"): "Z" for UTC, else the signed offset.
Format(t) == <<t.day, "T", t.clock, IF t.zone = 0 THEN "Z" ELSE "+08:00">>

TitleProp(texts) == [kind |-> "title", texts |-> texts]
RichTextProp(texts) == [kind |-> "rich_text", texts |-> texts]
DateProp(start) == [kind |-> "date", start |-> start]
SelectProp(name) == [kind |-> "select", name |-> name]
MultiSelectProp(names) == [kind |-> "multi_select", names |-> names]
StatusProp(name) == [kind |-> "status", name |-> name]
CheckboxProp == [kind |-> "checkbox"]

\* Front-matter keys and the property names the code special-cases.
KeyTitle == <<"t", "i", "t", "l", "e">>
KeyName == <<"n", "a", "m", "e">>
KeySlug == <<"s", "l", "u", "g">>
KeyDate == <<"d", "a", "t", "e">>
KeyType == <<"t", "y", "p", "e">>
KeyStatus == <<"s", "t", "a", "t", "u", "s">>
KeyDraft == <<"d", "r", "a", "f", "t">>
KeyLastmod == <<"l", "a", "s", "t", "m", "o", "d">>

Untitled == <<"u", "n", "t", "i", "t", "l", "e", "d">>
PagesText == <<"p", "a", "g", "e", "s">>
PostText == <<"p", "o", "s", "t">>

\* extractPropertyValue: the generic coercion of a property to a value.
\* A multi-select yields its (possibly empty) list, never nil.
extractPropertyValue(prop) ==
    CASE prop.kind = "title" ->
            IF Len(prop.texts) > 0 THEN Str(prop.texts[1]) ELSE NoVal
      [] prop.kind = "rich_text" ->
            IF Len(prop.texts) > 0 THEN Str(prop.texts[1]) ELSE NoVal
      [] prop.kind = "date" ->
            IF prop.start # NoVal THEN Str(Format(prop.start)) ELSE NoVal
      [] prop.kind = "select" -> Str(prop.name)
      [] prop.kind = "multi_select" -> List(prop.names)
      [] prop.kind = "status" -> Str(prop.name)
      [] OTHER -> NoVal

\* m.Properties[k] = v
SetProp(props, k, v) == (k :> v) @@ props

\* The "type" case of parseMetadata: front-matter type and path classification.
ParseType(m, str) ==
    IF Contains(str, ":")
    THEN LET i == IndexCh(str, ":")
             pathCategory == ToLower(TrimSpace(SubSeq(str, 1, i - 1)))
             typeValue == TrimSpace(SubSeq(str, i + 1, Len(str)))
         IN  IF pathCategory = PagesText
             THEN [m EXCEPT !.pathType = PagesText,
                            !.Properties = SetProp(@, KeyType, Str(typeValue))]
             ELSE [m EXCEPT !.pathType = ToLower(str),
                            !.Properties = SetProp(@, KeyType, Str(str))]
    ELSE IF ToLower(str) = PostText
         THEN [m EXCEPT !.pathType = PostsSeg,
                        !.Properties = SetProp(@, KeyType, Str(PostsSeg))]
         ELSE [m EXCEPT !.pathType = ToLower(str),
                        !.Properties = SetProp(@, KeyType, Str(str))]

\* A variant of the "date" case that keeps the creation time.
ParseDate_KeepCreated(m, prop) == m

\* The "date" case of parseMetadata: a date property with a start overrides
\* the default date.
ParseDate(m, prop) ==
    IF prop.kind = "date" /\ prop.start # NoVal
    THEN [m EXCEPT !.Properties = SetProp(@, KeyDate, Str(Format(prop.start)))]
    ELSE m

\* One iteration of the loop over page.Properties in parseMetadata.
ParseStep(m, k, prop) ==
    LET lowerKey == ToLower(k)
        value == extractPropertyValue(prop)
    IN  CASE lowerKey \in {KeyTitle, KeyName} ->
                IF prop.kind = "title" /\ Len(prop.texts) > 0
                THEN [m EXCEPT !.Title = prop.texts[1],
                               !.Properties = SetProp(@, KeyTitle, Str(prop.texts[1]))]
                ELSE m
          [] lowerKey = KeySlug ->
                IF value.t = "str" /\ value.v # <<>>
                THEN [m EXCEPT !.Slug = value.v,
                               !.Properties = SetProp(@, KeySlug, value)]
                ELSE m
          [] lowerKey = KeyDate -> ParseDate(m, prop)
          [] lowerKey = KeyType ->
                IF value.t = "str" /\ value.v # <<>> THEN ParseType(m, value.v) ELSE m
          [] lowerKey = KeyStatus ->
                IF prop.kind = "status"
                THEN [m EXCEPT !.Properties =
                        IF ToLower(prop.name) = KeyDraft
                        THEN SetProp(SetProp(@, KeyStatus, Str(prop.name)), KeyDraft, Bool(TRUE))
                        ELSE SetProp(@, KeyStatus, Str(prop.name))]
                ELSE m
          [] OTHER ->
                IF value # NoVal
                THEN [m EXCEPT !.Properties = SetProp(@, k, value)]
                ELSE m

RECURSIVE ParseLoop(_, _, _)
ParseLoop(m, props, order) ==
    IF order = <<>> THEN m
    ELSE ParseLoop(ParseStep(m, Head(order), props[Head(order)]), props, Tail(order))

\* The metadata before the loop: default title and the default timestamps.
InitialMetadata(pg) ==
    [Title |-> Untitled, Slug |-> <<>>, pathType |-> <<>>,
     Properties |->
        (IF pg.created # ZeroTime THEN KeyDate :> Str(Format(pg.created)) ELSE <<>>)
        @@ (IF pg.edited # ZeroTime THEN KeyLastmod :> Str(Format(pg.edited)) ELSE <<>>)]

\* The defaults set after the loop: slug from the title, slugified; the
\* path type from the front-matter type when still unset.
FinishMetadata(m) ==
    LET withSlug == [m EXCEPT !.Slug = slugify(IF m.Slug = <<>> THEN m.Title ELSE m.Slug)]
    IN  IF withSlug.pathType = <<>>
           /\ KeyType \in DOMAIN withSlug.Properties
           /\ withSlug.Properties[KeyType].t = "str"
        THEN [withSlug EXCEPT !.pathType = withSlug.Properties[KeyType].v]
        ELSE withSlug

\* parseMetadata, the page's property map being iterated in `order` (Go
\* iterates a map in an unspecified order).
parseMetadata(pg, order) ==
    FinishMetadata(ParseLoop(InitialMetadata(pg), pg.props, order))

\* A variant of GetPagePath that uses the path type as it is.
PagePathOf_Unsanitised(m) ==
    IF m.pathType = <<>> THEN <<"/">> \o PostsSeg \o <<"/">> \o m.Slug \o <<"/">>
    ELSE IF m.pathType = PagesText THEN <<"/">> \o m.Slug \o <<"/">>
    ELSE <<"/">> \o m.pathType \o <<"/">> \o m.Slug \o <<"/">>

\* GetPagePath on already parsed metadata.
PagePathOf(m) ==
    LET safeType == slugify(m.pathType)
    IN  IF safeType = <<>> THEN <<"/">> \o PostsSeg \o <<"/">> \o m.Slug \o <<"/">>
        ELSE IF safeType = PagesText THEN <<"/">> \o m.Slug \o <<"/">>
        ELSE <<"/">> \o safeType \o <<"/">> \o m.Slug \o <<"/">>

\* Renderer.GetPagePath
GetPagePath(pg, order) == PagePathOf(parseMetadata(pg, order))

\* Renderer.buildFilename: filepath.ToSlash(filepath.Join(...)).
buildFilename(m) ==
    LET safeType == slugify(m.pathType)
    IN  IF safeType = <<>> THEN PathText(PathJoin(<<PostsSeg, m.Slug>>, <<IndexMd>>))
        ELSE IF safeType = PagesText THEN PathText(PathJoin(<<m.Slug>>, <<IndexMd>>))
        ELSE PathText(PathJoin(<<safeType, m.Slug>>, <<IndexMd>>))

\* Renderer.buildFrontMatter: the YAML document of m.Properties between two
\* "---" lines, kept as the set of its key/value entries.
buildFrontMatter(m) == { <<k, m.Properties[k]>> : k \in DOMAIN m.Properties }

\* What the environment does to one CacheFile call.
CacheOutcomes == {"mkdirfail", "transport", "status", "createfail", "copyfail", "ok"}

RelPath(name) == [rel |-> name]

\* A directory exists once a file was stored in it.
DirExists(d, dir) == \E f \in DOMAIN d : f.dir = dir

\* FileCache.downloadFile: what one download does to the disk when the
\* environment answers `outcome`.  os.Create followed by a failing io.Copy
\* leaves a partial file behind; os.Create truncates a file that exists.
downloadFile(d, localPath, outcome) ==
    IF outcome = "transport" THEN [err |-> "fetch", disk |-> d]
    ELSE IF outcome = "status" THEN [err |-> "http", disk |-> d]
    ELSE IF outcome = "createfail" THEN [err |-> "create", disk |-> d]
    ELSE IF outcome = "copyfail"
    THEN [err |-> "write", disk |-> (localPath :> "partial") @@ d]
    ELSE [err |-> "", disk |-> (localPath :> "body") @@ d]

\* CacheFile up to the existence check: os.MkdirAll, which can fail only
\* while the directory is missing, then os.Stat on the local path.  `miss`
\* says that the call goes on to download.
statLocalPath(d, localPath, outcome) ==
    IF outcome = "mkdirfail" /\ ~DirExists(d, localPath.dir)
    THEN [miss |-> FALSE, ret |-> NoVal, err |-> "mkdir"]
    ELSE IF localPath \in DOMAIN d
    THEN [miss |-> FALSE, ret |-> RelPath(localPath.name), err |-> ""]
    ELSE [miss |-> TRUE, ret |-> NoVal, err |-> ""]

\* CacheFile after a miss, dl being the result of downloadFile.
afterDownload(localPath, dl) ==
    [ret |-> IF dl.err = "" THEN RelPath(localPath.name) ELSE NoVal,
     err |-> dl.err, fetched |-> TRUE, disk |-> dl.disk]

\* FileCache.CacheFile on its local path: the result of one call made with
\* the disk in state d when the environment answers `outcome`.
CacheFileAt(d, localPath, outcome) ==
    IF statLocalPath(d, localPath, outcome).miss
    THEN afterDownload(localPath, downloadFile(d, localPath, outcome))
    ELSE [ret |-> statLocalPath(d, localPath, outcome).ret,
          err |-> statLocalPath(d, localPath, outcome).err,
          fetched |-> FALSE, disk |-> d]

\* The local path: the generated file name in the article's directory under
\* the base path.
LocalPath(u, articlePath) ==
    [dir |-> PathJoin(BasePath, PathDir(SplitSlash(articlePath))),
     name |-> generateFilename(u)]

\* FileCache.CacheFile
CacheFile(d, u, articlePath, outcome) ==
    CacheFileAt(d, LocalPath(u, articlePath), outcome)

NoCall == [url |-> NoVal, articlePath |-> <<>>, ret |-> NoVal, err |-> "", fetched |-> FALSE]

InitCache ==
    /\ disk = <<>>
    /\ call = NoCall
    /\ arg = NoVal
    /\ run = NoVal
    /\ res = NoVal
    /\ page = NoVal
    /\ meta = NoVal
    /\ out = NoVal
    /\ pagePath = NoVal
    /\ blocks = <<>>
    /\ trace = NoVal

\* One CacheFile call of a sequential process.
CacheFileCall ==
    \E u \in URLs, ap \in ArticlePaths, outcome \in CacheOutcomes :
        \E r \in {CacheFile(disk, u, ap, outcome)} :
            /\ Cardinality(DOMAIN r.disk) <= MaxFiles
            /\ disk' = r.disk
            /\ call' = [url |-> u, articlePath |-> ap, ret |-> r.ret,
                        err |-> r.err, fetched |-> r.fetched]
            /\ UNCHANGED <<page, meta, out, pagePath, blocks, trace, arg, res, run>>

NextCache == CacheFileCall

SpecCache == InitCache /\ [][NextCache]_vars

(***************************************************************************)
(* Two processes that share the cache directory, each making one CacheFile *)
(* call.  arg[p] holds the arguments of process p and res[p] its position  *)
(* and results; `during` records the processes that were between their     *)
(* existence check and the end of their download when p made its check.    *)
(***************************************************************************)
Procs == {"p1", "p2"}

InitRace ==
    /\ arg \in [Procs -> [url : URLs, articlePath : ArticlePaths]]
    /\ res = [p \in Procs |-> [pc |-> "stat", ret |-> NoVal, err |-> "",
                               fetched |-> FALSE, during |-> {}]]
    /\ disk = <<>>
    /\ call = NoCall
    /\ run = NoVal
    /\ page = NoVal
    /\ meta = NoVal
    /\ out = NoVal
    /\ pagePath = NoVal
    /\ blocks = <<>>
    /\ trace = NoVal

\* Process p runs CacheFile up to the existence check (lines 36-59).
StatStep(p) ==
    /\ res[p].pc = "stat"
    /\ \E outcome \in {"mkdirfail", "ok"} :
         \E st \in {statLocalPath(disk, LocalPath(arg[p].url, arg[p].articlePath), outcome)} :
            res' = [res EXCEPT ![p] =
                      [pc |-> IF st.miss THEN "download" ELSE "done",
                       ret |-> st.ret, err |-> st.err, fetched |-> FALSE,
                       during |-> { q \in Procs : res[q].pc = "download" }]]
    /\ UNCHANGED <<disk, call, page, meta, out, pagePath, blocks, trace, arg, run>>

\* Process p downloads and returns (lines 61-67).
DownloadStep(p) ==
    /\ res[p].pc = "download"
    /\ \E outcome \in CacheOutcomes \ {"mkdirfail"} :
         \E r \in {afterDownload(LocalPath(arg[p].url, arg[p].articlePath),
                                 downloadFile(disk, LocalPath(arg[p].url, arg[p].articlePath),
                                              outcome))} :
            /\ disk' = r.disk
            /\ res' = [res EXCEPT ![p] =
                         [pc |-> "done", ret |-> r.ret, err |-> r.err, fetched |-> TRUE,
                          during |-> res[p].during]]
    /\ UNCHANGED <<call, page, meta, out, pagePath, blocks, trace, arg, run>>

NextRace == \E p \in Procs : StatStep(p) \/ DownloadStep(p)

SpecRace == InitRace /\ [][NextRace]_vars

(***************************************************************************)
(* Blocks and their Markdown (block_types.go, render_config).              *)
(***************************************************************************)
NL == "\n"
Indent4 == <<" ", " ", " ", " ">>

\* A block as the Notion API returns it, together with what the environment
\* answers for it: `kids`/`fail` is the answer of getChildren for its id,
\* `outcome` what happens to the download of its file.  `text` is its rich
\* text (or caption), a sequence of spans.
Block(kind, text, has, fail, kids, file, outcome) ==
    [kind |-> kind, text |-> text, checked |-> FALSE, has |-> has, fail |-> fail,
     kids |-> kids, file |-> file, outcome |-> outcome]

\* A link target is [host, segs, bad]: the host is a sequence of words (the
\* scheme included), segs are the segments of the path, each a text, and bad
\* says that url.Parse rejects it.  The empty string is the target without
\* host and without segments.
Href(host, segs) == [host |-> host, segs |-> segs, bad |-> FALSE]
NoHref == Href(<<>>, <<>>)
BadHref == [host |-> <<"%zz">>, segs |-> <<>>, bad |-> TRUE]
HrefString(h) == h.host \o Concat([i \in DOMAIN h.segs |-> <<"/">> \o h.segs[i]])

\* A rich-text span: its plain text, its link target, its annotations.
Span(plain, href, code, bold, italic, strikethrough, underline) ==
    [PlainText |-> plain, Href |-> href, Code |-> code, Bold |-> bold,
     Italic |-> italic, Strikethrough |-> strikethrough, Underline |-> underline]

\* A span without link and without annotations.
PlainSpan(plain) == Span(plain, NoHref, FALSE, FALSE, FALSE, FALSE, FALSE)

\* The resolver main hands to the renderer: a closure over the page map.
\* A nil resolver is NoVal.
Resolver(pageMap) == [pageMap |-> pageMap]
resolve(resolver, pageID) ==
    IF pageID \in DOMAIN resolver.pageMap THEN resolver.pageMap[pageID] ELSE <<>>

HexChars == Digits \cup {"a", "b", "c", "d", "e", "f", "A", "B", "C", "D", "E", "F"}
IsHex(s) == \A i \in DOMAIN s : s[i] \in HexChars
Suffix(s, n) == SubSeq(s, Len(s) - n + 1, Len(s))
HasSuffix(s, suf) == Len(s) >= Len(suf) /\ Suffix(s, Len(suf)) = suf
\* strings.TrimSuffix
TrimSuffix(s, suf) ==
    IF HasSuffix(s, suf) THEN SubSeq(s, 1, Len(s) - Len(suf)) ELSE s

\* reDashed: the text ends with 8-4-4-4-12 hexadecimal digits, in any case.
MatchesDashed(s) ==
    /\ Len(s) >= 36
    /\ \A i \in 1..36 :
          IF i \in {9, 14, 19, 24} THEN Suffix(s, 36)[i] = "-"
          ELSE Suffix(s, 36)[i] \in HexChars

\* reNoDash: the text ends with 32 hexadecimal digits, in any case.
MatchesNoDash(s) == Len(s) >= 32 /\ IsHex(Suffix(s, 32))

\* The identifier found at the end of the last path segment and the title
\* part before it; uuid is empty when there is none.
titleBeforeDashed(lastSegment, uuid) ==
    IF TrimSuffix(lastSegment, <<"-">> \o uuid) = lastSegment
    THEN TrimSuffix(lastSegment, uuid)
    ELSE TrimSuffix(lastSegment, <<"-">> \o uuid)

extractUUID(lastSegment) ==
    IF MatchesDashed(lastSegment)
    THEN [uuid |-> Suffix(lastSegment, 36),
          titlePart |-> titleBeforeDashed(lastSegment, Suffix(lastSegment, 36))]
    ELSE IF MatchesNoDash(lastSegment)
    THEN [uuid |-> Suffix(lastSegment, 32),
          titlePart |-> TrimSuffix(TrimSuffix(lastSegment, Suffix(lastSegment, 32)),
                                   <<"-">>)]
    ELSE [uuid |-> <<>>, titlePart |-> <<>>]

\* A variant of the identifier's normalisation that keeps the hyphens.
normalizeUUID_KeepHyphens(uuid) == uuid

\* strings.ReplaceAll(uuid, "-", "")
normalizeUUID(uuid) == ReplaceAllCh(uuid, "-", <<>>)

\* The fallback of notionURLToHugoLink: a posts link guessed from the title.
postsLink(slug, normalizedUUID) ==
    <<"/">> \o PostsSeg \o <<"/">>
        \o (IF slug = <<>> THEN normalizedUUID ELSE slug) \o <<"/">>

fallbackLink(titlePart, lastSegment, normalizedUUID) ==
    postsLink(slugify(ReplaceAllCh(IF titlePart = <<>> THEN lastSegment ELSE titlePart,
                                   "-", <<" ">>)),
              normalizedUUID)

resolvedOrFallback(resolvedPath, x, lastSegment, normalizedUUID) ==
    IF resolvedPath # <<>> THEN resolvedPath
    ELSE fallbackLink(x.titlePart, lastSegment, normalizedUUID)

linkForUUID(raw, x, lastSegment, normalizedUUID, resolver) ==
    IF x.uuid = <<>> THEN HrefString(raw)
    ELSE resolvedOrFallback(IF resolver # NoVal THEN resolve(resolver, normalizedUUID)
                            ELSE <<>>,
                            x, lastSegment, normalizedUUID)

linkForSegment(raw, lastSegment, x, resolver) ==
    linkForUUID(raw, x, lastSegment, normalizeUUID(x.uuid), resolver)

\* notionURLToHugoLink: a link to a page of the platform becomes a link of
\* the site; any other link stays as it is.
notionURLToHugoLink(raw, resolver) ==
    IF raw = NoHref \/ raw.bad \/ raw.host = <<>> THEN HrefString(raw)
    ELSE IF ~Contains(raw.host, "notion.so") THEN HrefString(raw)
    ELSE IF raw.segs = <<>> THEN HrefString(raw)
    ELSE linkForSegment(raw, raw.segs[Len(raw.segs)],
                        extractUUID(raw.segs[Len(raw.segs)]), resolver)

\* The backtick character.
Backtick == "BACKTICK"

\* escapeBackticks: a backtick gets a backslash.
escapeBackticks(s) == ReplaceAllCh(s, Backtick, <<"\\", Backtick>>)

\* escapeMarkdown: "[" and "]" get a backslash.
escapeMarkdown(s) ==
    ReplaceAllCh(ReplaceAllCh(s, "[", <<"\\", "[">>), "]", <<"\\", "]">>)

\* A variant of the wrapping that applies the annotations in the opposite
\* order, bold last.
wrapAnnotations_BoldLast(t, txt) ==
    LET u == IF t.Underline THEN <<"<u>">> \o txt \o <<"</u>">> ELSE txt
        s == IF t.Strikethrough THEN <<"~", "~">> \o u \o <<"~", "~">> ELSE u
        i == IF t.Italic THEN <<"*">> \o s \o <<"*">> ELSE s
    IN  IF t.Bold THEN <<"*", "*">> \o i \o <<"*", "*">> ELSE i

\* The wrapping of a span that is not code: bold first, then italic, then
\* strikethrough, then underline, each around the result so far.
wrapAnnotations(t, txt) ==
    LET b == IF t.Bold THEN <<"*", "*">> \o txt \o <<"*", "*">> ELSE txt
        i == IF t.Italic THEN <<"*">> \o b \o <<"*">> ELSE b
        s == IF t.Strikethrough THEN <<"~", "~">> \o i \o <<"~", "~">> ELSE i
    IN  IF t.Underline THEN <<"<u>">> \o s \o <<"</u>">> ELSE s

\* richTextAnnotationsToMarkdown: a code span in backticks, any other span
\* wrapped per its annotations.
richTextAnnotationsToMarkdown(t) ==
    IF t.Code THEN <<Backtick>> \o escapeBackticks(t.PlainText) \o <<Backtick>>
    ELSE wrapAnnotations(t, t.PlainText)

\* One round of the loop of richTextArrToMarkdown: what a span adds.
spanToMarkdown(t, resolver) ==
    IF t.Href # NoHref
    THEN <<"[">> \o escapeMarkdown(richTextAnnotationsToMarkdown(t)) \o <<"]", "(">>
            \o notionURLToHugoLink(t.Href, resolver) \o <<")">>
    ELSE IF t.Code THEN <<Backtick>> \o escapeBackticks(t.PlainText) \o <<Backtick>>
    ELSE wrapAnnotations(t, t.PlainText)

\* richTextArrToMarkdown: the spans one after the other.
richTextArrToMarkdown(arr, resolver) ==
    Concat([i \in DOMAIN arr |-> spanToMarkdown(arr[i], resolver)])

\* captionFirstParagraph: the caption up to its first blank line, trimmed.
RECURSIVE UpToBlankLine(_)
UpToBlankLine(s) ==
    IF Len(s) < 2 THEN s
    ELSE IF s[1] = NL /\ s[2] = NL THEN <<>>
    ELSE <<Head(s)>> \o UpToBlankLine(Tail(s))

captionFirstParagraph(arr, resolver) ==
    IF arr = <<>> THEN <<>>
    ELSE TrimSpace(UpToBlankLine(richTextArrToMarkdown(arr, resolver)))

\* shortenURLLabel for URLs of at most 40 characters, as the URLs of this
\* model are: host/.../filename when the path ends in a file name with an
\* extension, else host, path and query; a URL that does not parse stays raw.
shortenURLLabel(u) ==
    IF u.bad THEN URLString(u)
    ELSE IF u.ext # ""
         THEN u.host \o <<"/.../">> \o <<u.path[Len(u.path)], u.ext>>
         ELSE u.host \o u.path \o (IF u.query = <<>> THEN <<>> ELSE <<"?">> \o u.query)

\* The local path CacheFile returns, as text: "./" + hash[:8] + ext.
RelText(r) == <<"./", "sha8(">> \o r.rel.hash.sha \o <<")", r.rel.ext>>

\* A file the block refers to: Notion-hosted (File) or external (External).
FileRef(u, internal) == [url |-> u, internal |-> internal]

\* The label of a file block: its caption, or the shortened URL.
fileLabel(caption, u) ==
    IF caption # <<>> THEN caption ELSE escapeMarkdown(shortenURLLabel(u))

\* A variant of the fallback that drops the URL when caching fails.
cachedOrOriginal_NoFallback(r, originalURL, text, d) ==
    [url |-> IF r.err = "" THEN RelText(r.ret) ELSE <<>>,
     text |-> text, disk |-> r.disk,
     cache |-> << [url |-> originalURL, err |-> r.err, ret |-> r.ret] >>]

\* The end of processFileURLWithCache for a Notion-hosted file, r being the
\* result of CacheFile: the cached path, or the original URL if caching failed.
cachedOrOriginal(r, originalURL, text, d) ==
    [url |-> IF r.err = "" THEN RelText(r.ret) ELSE URLString(originalURL),
     text |-> text, disk |-> r.disk,
     cache |-> << [url |-> originalURL, err |-> r.err, ret |-> r.ret] >>]

\* processFileURLWithCache: the URL and label to render, the disk afterwards
\* and the CacheFile calls made.
processFileURLWithCache(block, d, articlePath) ==
    IF block.file = NoVal
    THEN [url |-> <<>>, text |-> <<>>, disk |-> d, cache |-> <<>>]
    ELSE IF block.file.internal /\ articlePath # <<>>
    THEN cachedOrOriginal(CacheFile(d, block.file.url, articlePath, block.outcome),
                          block.file.url,
                          fileLabel(captionFirstParagraph(block.text, NoVal), block.file.url), d)
    ELSE [url |-> URLString(block.file.url),
          text |-> fileLabel(captionFirstParagraph(block.text, NoVal), block.file.url),
          disk |-> d, cache |-> <<>>]

\* The templates of DefaultRenderConfig; a placeholder is one symbol.
DetailsTemplate ==
    <<"{{< details summary=\"", "{{.Summary}}", "\">}}", NL, "{{.Content}}", NL,
      "{{< /details >}}">>
VideoTemplate == <<"{{< video src=\"", "{{.URL}}", "\" >}}">>
PDFTemplate == <<"{{< pdf src=\"", "{{.URL}}", "\" >}}">>
FileTemplate == <<"[", "{{.Text}}", "]", "(", "{{.URL}}", ")">>

\* renderTemplate: every placeholder of the template replaced by its value.
\* data is a sequence of <<placeholder, value>>; no value of this model
\* holds a placeholder, so the order of replacement does not show.
RECURSIVE renderTemplate(_, _)
renderTemplate(template, data) ==
    IF data = <<>> THEN template
    ELSE renderTemplate(ReplaceAllCh(template, Head(data)[1], Head(data)[2]), Tail(data))

\* renderListItemWithChild
renderListItemWithChild(base, childContent) ==
    IF childContent = <<>> THEN base ELSE base \o <<NL>> \o childContent

\* dedentChildContent: one level of 4-space indentation removed per line.
dedentChildContent(childContent) ==
    IF childContent = <<>> THEN childContent
    ELSE LET lines == SplitOn(childContent, NL)
         IN  JoinWith([i \in DOMAIN lines |->
                         IF HasPrefix(lines[i], Indent4)
                         THEN SubSeq(lines[i], 5, Len(lines[i]))
                         ELSE lines[i]], <<NL>>)

toggleToMarkdown(block, childContent, resolver) ==
    LET summary == richTextArrToMarkdown(block.text, resolver)
    IN  IF childContent = <<>> THEN <<">", " ">> \o summary
        ELSE renderTemplate(DetailsTemplate,
                 << <<"{{.Summary}}", summary>>,
                    <<"{{.Content}}", dedentChildContent(childContent)>> >>)

\* A table block and a row of it: the header flag, the cells (each a rich
\* text) and the rows getChildren returns for the table.
TableRowBlock(cells) ==
    [kind |-> "table_row", text |-> <<>>, checked |-> FALSE, has |-> FALSE, fail |-> FALSE,
     kids |-> <<>>, file |-> NoVal, outcome |-> "ok", Cells |-> cells]
TableBlock(hasColumnHeader, rows) ==
    [kind |-> "table", text |-> <<>>, checked |-> FALSE, has |-> rows # <<>>,
     fail |-> FALSE, kids |-> rows, file |-> NoVal, outcome |-> "ok",
     HasColumnHeader |-> hasColumnHeader]

\* index of the first occurrence of the text sep in s, 0 when there is none
IndexText(s, sep) ==
    IF \E i \in 1..(Len(s) - Len(sep) + 1) : SubSeq(s, i, i + Len(sep) - 1) = sep
    THEN CHOOSE i \in 1..(Len(s) - Len(sep) + 1) :
            /\ SubSeq(s, i, i + Len(sep) - 1) = sep
            /\ \A j \in 1..(i - 1) : SubSeq(s, j, j + Len(sep) - 1) # sep
    ELSE 0

\* strings.Split(s, sep) for a separator of several characters.
RECURSIVE SplitOnText(_, _)
SplitOnText(s, sep) ==
    IF IndexText(s, sep) = 0 THEN <<s>>
    ELSE <<SubSeq(s, 1, IndexText(s, sep) - 1)>>
            \o SplitOnText(SubSeq(s, IndexText(s, sep) + Len(sep), Len(s)), sep)

\* " | ", what separates the cells of a row.
CellSep == <<" ", "|", " ">>

\* tableRowToMarkdown: the cells, each trimmed, joined by " | ".
tableRowToMarkdown(block, resolver) ==
    IF block.Cells = <<>> THEN <<>>
    ELSE JoinWith([i \in DOMAIN block.Cells |->
                     TrimSpace(richTextArrToMarkdown(block.Cells[i], resolver))],
                  CellSep)

\* A line of the child content that is not blank.
NotBlank(ln) == TrimSpace(ln) # <<>>

\* The cells tableToMarkdown reads back from a line of the child content.
trimParts(parts) == [i \in DOMAIN parts |-> TrimSpace(parts[i])]
parseTableLine(ln) ==
    IF IndexText(ln, CellSep) # 0 THEN trimParts(SplitOnText(ln, CellSep))
    ELSE trimParts(SplitOn(ln, "|"))

\* The greatest number of cells among the rows read back.
MaxColsOf(parsed) ==
    IF parsed = <<>> THEN 0
    ELSE CHOOSE n \in {Len(parsed[i]) : i \in DOMAIN parsed} :
            \A i \in DOMAIN parsed : Len(parsed[i]) <= n

\* A row padded to maxCols cells, between "| " and " |".
normalizedRow(parts, maxCols) ==
    <<"|", " ">> \o JoinWith(parts \o [i \in 1..(maxCols - Len(parts)) |-> <<>>], CellSep)
        \o <<" ", "|">>

\* The separator row: "---" in every column.
separatorRow(maxCols) ==
    <<"|", " ">> \o JoinWith([i \in 1..maxCols |-> <<"-", "-", "-">>], CellSep)
        \o <<" ", "|">>

\* The end of tableToMarkdown: the rows, the separator row after the first
\* when the table has a column header.
tableLines(hasColumnHeader, normalized, maxCols) ==
    IF hasColumnHeader /\ Len(normalized) > 0
    THEN Head(normalized) \o <<NL>> \o separatorRow(maxCols)
            \o (IF Len(normalized) > 1
                THEN <<NL>> \o JoinWith(Tail(normalized), <<NL>>) ELSE <<>>)
    ELSE JoinWith(normalized, <<NL>>)

tableOfParsed(hasColumnHeader, parsed, maxCols) ==
    IF parsed = <<>> THEN <<>>
    ELSE tableLines(hasColumnHeader,
                    [i \in DOMAIN parsed |-> normalizedRow(parsed[i], maxCols)], maxCols)

tableOfLines(hasColumnHeader, lines) ==
    tableOfParsed(hasColumnHeader, [i \in DOMAIN lines |-> parseTableLine(lines[i])],
                  MaxColsOf([i \in DOMAIN lines |-> parseTableLine(lines[i])]))

tableOfContent(hasColumnHeader, s) ==
    IF s = <<>> THEN <<>>
    ELSE tableOfLines(hasColumnHeader, SelectSeq(SplitOn(s, NL), NotBlank))

\* tableToMarkdown: the table is read back from the rendered rows.
tableToMarkdown(block, childContent) ==
    tableOfContent(block.HasColumnHeader, TrimSpace(dedentChildContent(childContent)))

\* image/file/pdf/video: the Markdown around the URL processFileURLWithCache chose.
fileBlockToMarkdown(block, f) ==
    IF f.url = <<>> THEN <<>>
    ELSE CASE block.kind = "image" ->
                <<"!", "[">> \o escapeMarkdown(f.text) \o <<"]", "(">> \o f.url \o <<")">>
           [] block.kind = "file" ->
                renderTemplate(FileTemplate, << <<"{{.URL}}", f.url>>, <<"{{.Text}}", f.text>> >>)
           [] block.kind = "pdf" ->
                renderTemplate(PDFTemplate, << <<"{{.URL}}", f.url>>, <<"{{.Text}}", f.text>> >>)
           [] OTHER ->
                renderTemplate(VideoTemplate, << <<"{{.URL}}", f.url>>, <<"{{.Text}}", f.text>> >>)

\* The result of blockToMarkdownWithCache for a file block.
fileBlockResult(block, f) ==
    [s |-> fileBlockToMarkdown(block, f), isList |-> FALSE, disk |-> f.disk,
     cache |-> f.cache]

FileKinds == {"image", "file", "pdf", "video"}
ListKinds == {"bulleted_list_item", "numbered_list_item", "to_do"}

\* blockToMarkdownWithCache: the fragment of a block given its rendered
\* children, whether it is a list item, the disk afterwards and the
\* CacheFile calls made.
blockToMarkdownWithCache(block, childContent, resolver, d, articlePath) ==
    LET plain(s, isList) == [s |-> s, isList |-> isList, disk |-> d, cache |-> <<>>]
    IN  CASE block.kind = "paragraph" -> plain(richTextArrToMarkdown(block.text, resolver), FALSE)
          [] block.kind = "bulleted_list_item" ->
                plain(renderListItemWithChild(
                        <<"-", " ">> \o richTextArrToMarkdown(block.text, resolver),
                        childContent), TRUE)
          [] block.kind = "numbered_list_item" ->
                plain(renderListItemWithChild(
                        <<"1", ".", " ">> \o richTextArrToMarkdown(block.text, resolver),
                        childContent), TRUE)
          [] block.kind = "to_do" ->
                plain(renderListItemWithChild(
                        <<"-", " ", "[", IF block.checked THEN "x" ELSE " ", "]", " ">>
                            \o richTextArrToMarkdown(block.text, resolver), childContent), TRUE)
          [] block.kind = "toggle" -> plain(toggleToMarkdown(block, childContent, resolver), FALSE)
          [] block.kind \in FileKinds ->
                fileBlockResult(block, processFileURLWithCache(block, d, articlePath))
          [] block.kind = "table" -> plain(tableToMarkdown(block, childContent), FALSE)
          [] block.kind = "table_row" -> plain(tableRowToMarkdown(block, resolver), FALSE)
          [] OTHER -> plain(<<>>, FALSE)

(***************************************************************************)
(* The recursive renderer (renderBlocksRecursive, RenderPage).             *)
(***************************************************************************)
\* The kinds getBlockIDAndHasChildren knows, among the kinds of this model;
\* for any other kind (a PDF block, an unsupported block) it reports no children.
FetchKinds ==
    {"paragraph", "bulleted_list_item", "numbered_list_item", "to_do", "toggle",
     "image", "file", "video", "table", "table_row"}

\* What a render has done so far: the disk, the getChildren calls made and
\* the CacheFile calls made, in order.
RenderState(d) == [disk |-> d, fetches |-> <<>>, cache |-> <<>>]

\* A variant of the separator that always leaves a blank line.
Separator_AlwaysBlank(prevIsList, isList) == <<NL, NL>>

\* The separator put before a block: one newline between two list items,
\* a blank line otherwise.
Separator(prevIsList, isList) ==
    IF prevIsList /\ isList THEN <<NL>> ELSE <<NL, NL>>

\* A variant of the indentation that treats blank lines like the others.
IndentChild_BlankLinesToo(parentKind, cstr) ==
    LET indent == IF parentKind \in ListKinds THEN Indent4 ELSE <<>>
        lines == SplitOn(TrimRightCh(cstr, NL), NL)
    IN  JoinWith([i \in DOMAIN lines |-> indent \o lines[i]], <<NL>>)

\* A rendered child as it enters its parent's child content: trailing
\* newlines trimmed and, under a list item, every non-blank line indented.
IndentChild(parentKind, cstr) ==
    LET indent == IF parentKind \in ListKinds THEN Indent4 ELSE <<>>
        lines == SplitOn(TrimRightCh(cstr, NL), NL)
    IN  JoinWith([i \in DOMAIN lines |->
                    IF TrimSpace(lines[i]) = <<>> THEN lines[i] ELSE indent \o lines[i]],
                 <<NL>>)

\* The end of renderBlock, b being the result of blockToMarkdownWithCache:
\* trailing newlines trimmed, the disk and the CacheFile calls recorded.
finished(b, id, st) ==
    [s |-> TrimRightCh(b.s, NL), isList |-> b.isList, err |-> "",
     st |-> [st EXCEPT !.disk = b.disk,
                       !.cache = @ \o [i \in DOMAIN b.cache |->
                                         [id |-> id, url |-> b.cache[i].url,
                                          err |-> b.cache[i].err,
                                          ret |-> b.cache[i].ret]]]]

finishBlock(block, id, childContent, resolver, st, articlePath) ==
    finished(blockToMarkdownWithCache(block, childContent, resolver, st.disk, articlePath),
             id, st)

\* One round of the loop over the children: the child's error ends the
\* loop, else its indented fragment is appended to the child content.
joinChild(parentKind, before, c) ==
    IF c.err # ""
    THEN [childContent |-> <<>>, prevChildIsList |-> FALSE, err |-> c.err, st |-> c.st]
    ELSE [childContent |->
             IF before.childContent = <<>> THEN IndentChild(parentKind, c.s)
             ELSE before.childContent \o Separator(before.prevChildIsList, c.isList)
                    \o IndentChild(parentKind, c.s),
          prevChildIsList |-> c.isList, err |-> "", st |-> c.st]

\* renderBlock: fetch and render the children if the block declares any,
\* then format the block.  A failing getChildren ends the render.  loop[i] is
\* the state of the loop over the children after the i-th child; the id of a
\* block is its position in the tree.
RECURSIVE renderBlock(_, _, _, _, _)
renderBlock(block, id, resolver, st, articlePath) ==
    IF block.kind \in FetchKinds /\ block.has
    THEN IF block.fail
         THEN [s |-> <<>>, isList |-> FALSE, err |-> "getChildren",
               st |-> [st EXCEPT !.fetches = Append(@, [id |-> id, failed |-> TRUE])]]
         ELSE LET loop[i \in 0..Len(block.kids)] ==
                    IF i = 0
                    THEN [childContent |-> <<>>, prevChildIsList |-> FALSE, err |-> "",
                          st |-> [st EXCEPT !.fetches =
                                     Append(@, [id |-> id, failed |-> FALSE])]]
                    ELSE IF loop[i - 1].err # "" THEN loop[i - 1]
                    ELSE joinChild(block.kind, loop[i - 1],
                                   renderBlock(block.kids[i], Append(id, i), resolver,
                                               loop[i - 1].st, articlePath))
              IN  IF loop[Len(block.kids)].err # ""
                  THEN [s |-> <<>>, isList |-> FALSE, err |-> loop[Len(block.kids)].err,
                        st |-> loop[Len(block.kids)].st]
                  ELSE finishBlock(block, id,
                                   TrimRightCh(loop[Len(block.kids)].childContent, NL),
                                   resolver, loop[Len(block.kids)].st, articlePath)
    ELSE finishBlock(block, id, <<>>, resolver, st, articlePath)

\* One round of the top-level loop: the block's error ends it, else the
\* separator (once the body is non-empty) and the fragment are appended.
\* pieces records, per block, the separator and the fragment appended.
joinTop(before, b) ==
    IF b.err # ""
    THEN [markdown |-> <<>>, prevIsList |-> FALSE, err |-> b.err, st |-> b.st,
          pieces |-> before.pieces]
    ELSE [markdown |->
             IF before.markdown # <<>>
             THEN before.markdown \o Separator(before.prevIsList, b.isList) \o b.s
             ELSE b.s,
          prevIsList |-> b.isList, err |-> "", st |-> b.st,
          pieces |-> Append(before.pieces,
                        [sep |-> IF before.markdown # <<>>
                                 THEN Separator(before.prevIsList, b.isList) ELSE <<>>,
                         s |-> b.s])]

\* renderBlocksRecursive: top[i] is the state of the top-level loop after
\* the i-th block.
renderBlocksRecursive(bs, resolver, d, articlePath) ==
    LET top[i \in 0..Len(bs)] ==
            IF i = 0
            THEN [markdown |-> <<>>, prevIsList |-> FALSE, err |-> "",
                  st |-> RenderState(d), pieces |-> <<>>]
            ELSE IF top[i - 1].err # "" THEN top[i - 1]
            ELSE joinTop(top[i - 1],
                         renderBlock(bs[i], <<i>>, resolver, top[i - 1].st, articlePath))
    IN  top[Len(bs)]

\* The empty string RenderPage returns as content next to an error.
EmptyContent == [empty |-> TRUE]

\* A variant of RenderPage's result that keeps the output next to an error.
PageResult_KeepsOutput(filename, fm, body, err) ==
    [filename |-> filename,
     content |-> [empty |-> FALSE, fm |-> fm, body |-> body], err |-> err]

\* What RenderPage returns: the filename and front matter + body, or empty
\* strings and the error.
PageResult(filename, fm, body, err) ==
    IF err # ""
    THEN [filename |-> <<>>, content |-> EmptyContent, err |-> err]
    ELSE [filename |-> filename,
          content |-> [empty |-> FALSE, fm |-> fm, body |-> body], err |-> ""]

\* The end of RenderPage, r being the result of renderBlocksRecursive.
pageRendered(m, filename, r) ==
    [meta |-> m,
     out |-> PageResult(filename, buildFrontMatter(m), r.markdown, r.err),
     disk |-> r.st.disk,
     trace |-> [fetches |-> r.st.fetches, cache |-> r.st.cache, pieces |-> r.pieces]]

renderWith(m, filename, bs, resolver, d) ==
    pageRendered(m, filename, renderBlocksRecursive(bs, resolver, d, filename))

renderParsed(m, bs, resolver, d) == renderWith(m, buildFilename(m), bs, resolver, d)

\* Renderer.RenderPage: the metadata parsed, what it returns, the disk after
\* and the calls made.
RenderPage(pg, order, bs, resolver, d) ==
    renderParsed(parseMetadata(pg, order), bs, resolver, d)

(***************************************************************************)
(* The pages the metadata builder is run on.                               *)
(***************************************************************************)
Created == Time("2025-01-15", "10:00:00", 0)
Edited == Time("2025-01-16", "12:00:00", 0)
CustomDate == Time("2025-02-20", "00:00:00", 0)
ZonedDate == Time("2025-03-01", "09:30:00", 8)

\* One candidate property: its name in the database and its value.
P(k, p) == [k |-> k, p |-> p]

PropChoices ==
    { P(<<"T", "i", "t", "l", "e">>, TitleProp(<<<<"A", " ", "b">>>>)),
      P(<<"T", "i", "t", "l", "e">>, TitleProp(<<<<"é", "!">>>>)),
      P(<<"T", "i", "t", "l", "e">>, TitleProp(<<>>)),
      P(<<"S", "l", "u", "g">>, RichTextProp(<<<<"M", "y", "_", "S">>>>)),
      P(<<"S", "l", "u", "g">>, RichTextProp(<<<<"?">>>>)),
      P(<<"S", "l", "u", "g">>, RichTextProp(<<>>)),
      P(<<"D", "a", "t", "e">>, DateProp(CustomDate)),
      P(<<"D", "a", "t", "e">>, DateProp(NoVal)),
      P(<<"D", "a", "t", "e">>, RichTextProp(<<<<"x">>>>)),
      P(<<"d", "a", "t", "e">>, DateProp(ZonedDate)),
      P(<<"T", "y", "p", "e">>, SelectProp(<<"P", "o", "s", "t">>)),
      P(<<"T", "y", "p", "e">>, SelectProp(<<"p", "a", "g", "e", "s">>)),
      P(<<"T", "y", "p", "e">>, SelectProp(<<"P", "a", "g", "e", "s", " ", ":", " ", "f", "r">>)),
      P(<<"T", "y", "p", "e">>, SelectProp(<<"d", "o", "c", "s", ":", "g", "u", "i", "d", "e", "s">>)),
      P(<<"T", "y", "p", "e">>, SelectProp(<<"D", "o", ":", "X">>)),
      P(<<"T", "y", "p", "e">>, SelectProp(<<"B", "l", "o", "g">>)),
      P(<<"T", "y", "p", "e">>, SelectProp(<<>>)),
      P(<<"T", "y", "p", "e">>, MultiSelectProp(<<<<"x">>>>)),
      P(<<"S", "t", "a", "t", "u", "s">>, StatusProp(<<"D", "r", "a", "f", "t">>)),
      P(<<"S", "t", "a", "t", "u", "s">>, StatusProp(<<"d", "R", "A", "F", "T">>)),
      P(<<"S", "t", "a", "t", "u", "s">>, StatusProp(<<"D", "o", "n", "e">>)),
      P(<<"S", "t", "a", "t", "u", "s">>, SelectProp(<<"D", "r", "a", "f", "t">>)),
      P(<<"d", "r", "a", "f", "t">>, SelectProp(<<"n", "o">>)),
      P(<<"D", "o", "n", "e">>, CheckboxProp),
      P(<<"l", "a", "s", "t", "m", "o", "d">>, DateProp(CustomDate)),
      P(<<"T", "a", "g", "s">>, MultiSelectProp(<<<<"b">>, <<"a">>>>)),
      P(<<"S", "u", "m", "m", "a", "r", "y">>, RichTextProp(<<<<"s">>, <<"t">>>>)) }

\* The sets of at most n candidate properties with pairwise distinct names.
RECURSIVE PropSets(_)
PropSets(n) ==
    IF n = 0 THEN {{}}
    ELSE LET smaller == PropSets(n - 1)
         IN  smaller \cup
             { s \cup {c} : <<s, c>> \in
                 { sc \in smaller \X PropChoices :
                     \A d \in sc[1] : d.k # sc[2].k } }

\* page.Properties as a map from property name to property.
PropsOf(s) == [k \in {c.k : c \in s} |-> (CHOOSE c \in s : c.k = k).p]

Pages ==
    { [created |-> c, edited |-> Edited, props |-> PropsOf(s)] :
        c \in {ZeroTime, Created}, s \in PropSets(MaxProps) }

\* The orders in which a map with the given keys can be iterated.
RECURSIVE Perms(_)
Perms(keys) ==
    IF keys = {} THEN {<<>>}
    ELSE UNION { { <<k>> \o rest : rest \in Perms(keys \ {k}) } : k \in keys }

InitMeta ==
    /\ page \in Pages
    /\ meta = NoVal
    /\ out = NoVal
    /\ pagePath = NoVal
    /\ blocks = <<>>
    /\ trace = NoVal
    /\ disk = <<>>
    /\ call = NoCall
    /\ arg = NoVal
    /\ run = NoVal
    /\ res = NoVal

\* Renderer.RenderPage on the page and its blocks.
RenderPageCall ==
    /\ \E order \in Perms(DOMAIN page.props) :
         \E r \in {RenderPage(page, order, blocks, NoVal, disk)} :
            /\ meta' = r.meta
            /\ out' = r.out
            /\ disk' = r.disk
            /\ trace' = r.trace
    /\ UNCHANGED <<page, blocks, pagePath, call, arg, res, run>>

\* Renderer.GetPagePath, which parses the page's metadata on its own.
GetPagePathCall ==
    /\ \E order \in Perms(DOMAIN page.props) :
         pagePath' = GetPagePath(page, order)
    /\ UNCHANGED <<page, meta, out, disk, call, blocks, trace, arg, res, run>>

NextMeta == RenderPageCall \/ GetPagePathCall

SpecMeta == InitMeta /\ [][NextMeta]_vars

(***************************************************************************)
(* Rendering block trees.                                                  *)
(***************************************************************************)
\* The page whose blocks are rendered; its filename is posts/a-b/index.md.
BlogPage ==
    [created |-> Created, edited |-> Edited,
     props |-> PropsOf({P(<<"T", "i", "t", "l", "e">>, TitleProp(<< <<"A", " ", "b">> >>))})]

\* A block without children.
Leaf(kind, text) == Block(kind, text, FALSE, FALSE, <<>>, NoVal, "ok")

LeafBlocks ==
    { Leaf("paragraph", <<PlainSpan(<<"p">>)>>),
      Leaf("paragraph", <<>>),
      Leaf("bulleted_list_item", <<PlainSpan(<<"b">>)>>),
      Leaf("numbered_list_item", <<PlainSpan(<<"n">>)>>),
      Leaf("to_do", <<PlainSpan(<<"t">>)>>),
      \* a paragraph of three lines, the second one of white space only
      Leaf("paragraph", <<PlainSpan(<<"p", NL, " ", NL, "q">>)>>) }

\* The kinds of the blocks that declare children and are asked for them.
ParentKinds == {"bulleted_list_item", "toggle", "paragraph"}

\* A PDF block that declares children: getBlockIDAndHasChildren has no case
\* for it.
UnfetchedParents ==
    { Block("pdf", <<>>, TRUE, FALSE, <<Leaf("paragraph", <<PlainSpan(<<"p">>)>>)>>,
            NoVal, "ok") }

\* A block with children for which getChildren fails.
FailingParents ==
    { Block(k, <<PlainSpan(<<"f">>)>>, TRUE, TRUE, <<>>, NoVal, "ok") : k \in ParentKinds }

\* The trees of exactly n blocks whose children are drawn from `forests`.
TreesOf(n, forests) ==
    IF n = 1 THEN LeafBlocks \cup FailingParents
    ELSE { Block(k, <<PlainSpan(<<"h">>)>>, TRUE, FALSE, kids, NoVal, "ok") :
             k \in ParentKinds, kids \in forests }
         \cup (IF n = 2 THEN UnfetchedParents ELSE {})

\* The forests of exactly n blocks.
RECURSIVE ForestsOf(_)
ForestsOf(n) ==
    IF n = 0 THEN {<<>>}
    ELSE UNION { { <<t>> \o f : t \in TreesOf(k, IF k = 1 THEN {} ELSE ForestsOf(k - 1)),
                                f \in ForestsOf(n - k) } : k \in 1..n }

InitRender ==
    /\ page = BlogPage
    /\ blocks \in UNION { ForestsOf(n) : n \in 0..MaxBlocks }
    /\ meta = NoVal
    /\ out = NoVal
    /\ pagePath = NoVal
    /\ trace = NoVal
    /\ disk = <<>>
    /\ call = NoCall
    /\ arg = NoVal
    /\ run = NoVal
    /\ res = NoVal

NextRender == RenderPageCall

SpecRender == InitRender /\ [][NextRender]_vars

(***************************************************************************)
(* Rendering blocks with files.                                            *)
(***************************************************************************)
HostedURL ==
    [host |-> AwsHost, path |-> <<"ws", "abc">>, ext |-> ".png",
     query |-> <<"sig1">>, bad |-> FALSE]
ExternalURL ==
    [host |-> <<"www", "example.com">>, path |-> <<"pic">>, ext |-> ".png",
     query |-> <<>>, bad |-> FALSE]

Caption == <<PlainSpan(<<"c">>)>>

\* Blocks with a Notion-hosted file, one per kind and per fate of the download.
HostedFileBlocks ==
    { Block(k, Caption, FALSE, FALSE, <<>>, FileRef(HostedURL, TRUE), o) :
        k \in FileKinds, o \in CacheOutcomes }

FileBlocks ==
    HostedFileBlocks
    \cup { Block("image", Caption, FALSE, FALSE, <<>>, FileRef(ExternalURL, FALSE), "ok"),
           Block("image", Caption, FALSE, FALSE, <<>>, NoVal, "ok"),
           Leaf("paragraph", <<PlainSpan(<<"p">>)>>),
           Block("bulleted_list_item", <<PlainSpan(<<"b">>)>>, TRUE, FALSE,
                 << Block("image", Caption, FALSE, FALSE, <<>>,
                          FileRef(HostedURL, TRUE), "transport") >>, NoVal, "ok") }

RECURSIVE SeqsUpTo(_, _)
SeqsUpTo(S, n) ==
    IF n = 0 THEN {<<>>}
    ELSE LET shorter == SeqsUpTo(S, n - 1)
         IN  shorter \cup { Append(q, x) : q \in shorter, x \in S }

InitFiles ==
    /\ page = BlogPage
    /\ blocks \in SeqsUpTo(FileBlocks, MaxFileBlocks)
    /\ meta = NoVal
    /\ out = NoVal
    /\ pagePath = NoVal
    /\ trace = NoVal
    /\ disk = <<>>
    /\ call = NoCall
    /\ arg = NoVal
    /\ run = NoVal
    /\ res = NoVal

NextFiles == RenderPageCall

SpecFiles == InitFiles /\ [][NextFiles]_vars

(***************************************************************************)
(* Functions on text, called on their own.                                 *)
(***************************************************************************)
\* The renderer's state while a function on text is studied.
Idle ==
    /\ page = NoVal
    /\ meta = NoVal
    /\ out = NoVal
    /\ pagePath = NoVal
    /\ blocks = <<>>
    /\ trace = NoVal
    /\ disk = <<>>
    /\ call = NoCall
    /\ run = NoVal

\* The texts of at most n characters over the given alphabet.
Texts(alphabet, n) == SeqsUpTo(alphabet, n)

SlugAlphabet == {"A", "b", " ", "-", "_", "1", "!", "é"}

InitSlug ==
    /\ arg \in Texts(SlugAlphabet, MaxLen)
    /\ res = NoVal
    /\ Idle

\* slugify(arg)
SlugifyCall ==
    /\ res' = [of |-> "slugify", v |-> slugify(arg)]
    /\ UNCHANGED <<arg, disk, call, page, meta, out, pagePath, blocks, trace, run>>

\* parseMetadata on a page whose title, or whose Slug property, is arg: the
\* slug of the metadata.
ParseSlugCall ==
    /\ \E k \in {<<"T", "i", "t", "l", "e">>, <<"S", "l", "u", "g">>} :
         res' = [of |-> k,
                 v |-> parseMetadata(
                         [created |-> Created, edited |-> Edited,
                          props |-> PropsOf({P(k, IF k = <<"T", "i", "t", "l", "e">>
                                                  THEN TitleProp(<<arg>>)
                                                  ELSE RichTextProp(<<arg>>))})],
                         <<k>>).Slug]
    /\ UNCHANGED <<arg, disk, call, page, meta, out, pagePath, blocks, trace, run>>

NextSlug == SlugifyCall \/ ParseSlugCall

SpecSlug == InitSlug /\ [][NextSlug]_vars

(***************************************************************************)
(* Rich text rendered on its own.                                          *)
(***************************************************************************)
SpanAlphabet == {"a", "[", "]", Backtick}

ExampleLink == Href(<<"https://", "example.com">>, << <<"x">> >>)

\* The spans: every text, with or without a link, under every combination
\* of annotations.
Spans ==
    { Span(txt, href, code, bold, italic, strikethrough, underline) :
        txt \in Texts(SpanAlphabet, MaxLen), href \in {NoHref, ExampleLink},
        code \in BOOLEAN, bold \in BOOLEAN, italic \in BOOLEAN,
        strikethrough \in BOOLEAN, underline \in BOOLEAN }

InitText ==
    /\ arg \in { <<t>> : t \in Spans }
    /\ res = NoVal
    /\ Idle

\* richTextArrToMarkdown(arg, nil)
RichTextCall ==
    /\ res = NoVal
    /\ res' = [of |-> "richTextArrToMarkdown", v |-> richTextArrToMarkdown(arg, NoVal),
               again |-> NoVal]
    /\ UNCHANGED <<arg, disk, call, page, meta, out, pagePath, blocks, trace, run>>

\* richTextArrToMarkdown(arg, nil) a second time.
RichTextAgain ==
    /\ res # NoVal
    /\ res.again = NoVal
    /\ res' = [res EXCEPT !.again = [v |-> richTextArrToMarkdown(arg, NoVal)]]
    /\ UNCHANGED <<arg, disk, call, page, meta, out, pagePath, blocks, trace, run>>

NextText == RichTextCall \/ RichTextAgain

SpecText == InitText /\ [][NextText]_vars

(***************************************************************************)
(* Links to pages of the platform (notionURLToHugoLink, main's page map).  *)
(***************************************************************************)
\* Page identifiers as the API returns them.
IdA ==
    <<"a", "1", "b", "2", "c", "3", "d", "4", "-", "e", "5", "f", "6", "-",
      "7", "8", "9", "0", "-", "a", "b", "c", "d", "-", "e", "f", "1", "2",
      "3", "4", "5", "6", "7", "8", "9", "0">>
IdB ==
    <<"0", "f", "9", "e", "8", "d", "7", "c", "-", "6", "b", "5", "a", "-",
      "4", "3", "2", "1", "-", "8", "7", "6", "5", "-", "4", "3", "2", "1",
      "f", "e", "d", "c", "b", "a", "9", "8">>
\* The identifier of a page that is not in the database.
IdOther ==
    <<"d", "e", "a", "d", "b", "e", "e", "f", "-", "0", "0", "0", "0", "-",
      "4", "0", "0", "0", "-", "8", "0", "0", "0", "-", "0", "0", "0", "0",
      "0", "0", "0", "0", "c", "a", "f", "e">>

\* A page of the database with its identifier.
WithID(pg, id) == [ID |-> id, created |-> pg.created, edited |-> pg.edited, props |-> pg.props]

\* A post (/posts/a-b/) and a page of type "pages" (/about/).
PostPage == WithID(BlogPage, IdA)
AboutPage ==
    WithID([created |-> Created, edited |-> Edited,
            props |-> PropsOf({P(<<"T", "i", "t", "l", "e">>,
                                 TitleProp(<< <<"A", "b", "o", "u", "t">> >>)),
                               P(<<"T", "y", "p", "e">>, SelectProp(PagesText))})],
           IdB)

\* One round of main's loop over the pages: the path of the page is put
\* under its identifier without hyphens.
pageMapPut(pageMap, p, order) ==
    [k \in DOMAIN pageMap \cup {ReplaceAllCh(p.ID, "-", <<>>)} |->
        IF k = ReplaceAllCh(p.ID, "-", <<>>) THEN GetPagePath(p, order) ELSE pageMap[k]]

\* The page map before the loop.
EmptyPageMap == [k \in {} |-> <<>>]

\* main's loop over the pages, each page's properties iterated in the
\* order orders[i].
RECURSIVE buildPageMap(_, _, _)
buildPageMap(pageMap, pages, orders) ==
    IF pages = <<>> THEN pageMap
    ELSE buildPageMap(pageMapPut(pageMap, Head(pages), Head(orders)),
                      Tail(pages), Tail(orders))

\* The orders in which the properties of each page can be iterated.
OrdersOf(pages) ==
    { o \in [DOMAIN pages -> UNION { Perms(DOMAIN pages[i].props) : i \in DOMAIN pages }] :
        \A i \in DOMAIN pages : o[i] \in Perms(DOMAIN pages[i].props) }

PageLists == {<<>>, <<PostPage>>, <<AboutPage>>, <<PostPage, AboutPage>>}

NotionHost == <<"https://", "www.", "notion.so">>
LinkHosts == {NotionHost, <<"https://", "example.com">>,
              <<"https://", "my", "notion.so", ".example.com">>}

TitleAlphabet == {"M", "-", "é"}

\* The identifier as it ends a link: with its hyphens, without them, in
\* upper case, one digit short, or absent.
IdForms ==
    UNION { {id, ReplaceAllCh(id, "-", <<>>)} : id \in {IdA, IdB, IdOther} }
    \cup { [i \in DOMAIN IdA |->
              IF \E j \in DOMAIN Lowers : Lowers[j] = IdA[i]
              THEN Uppers[CHOOSE j \in DOMAIN Lowers : Lowers[j] = IdA[i]]
              ELSE IdA[i]],
           Tail(ReplaceAllCh(IdA, "-", <<>>)), <<>> }

Links ==
    { Href(NotionHost, <<title \o sep \o id>>) :
        title \in Texts(TitleAlphabet, MaxLen), sep \in {<<>>, <<"-">>}, id \in IdForms }
    \cup { Href(host, <<title \o id>>) :
             host \in LinkHosts, title \in {<<>>, <<"M", "-">>}, id \in IdForms }
    \cup { NoHref, BadHref, Href(<<>>, << <<"M">> \o IdA >>), Href(NotionHost, <<>>),
           Href(NotionHost, << <<"w", "s">>, <<"M">> \o IdA >>) }

InitLink ==
    /\ arg \in [pages : PageLists, href : Links]
    /\ res = NoVal
    /\ Idle

\* notionURLToHugoLink(arg.href, resolve) after main has built the page map.
ResolveLinkCall ==
    /\ \E orders \in OrdersOf(arg.pages) :
         \E pageMap \in {buildPageMap(EmptyPageMap, arg.pages, orders)} :
            res' = [of |-> "resolve", pageMap |-> pageMap,
                    v |-> notionURLToHugoLink(arg.href, Resolver(pageMap))]
    /\ UNCHANGED <<arg, disk, call, page, meta, out, pagePath, blocks, trace, run>>

\* notionURLToHugoLink(arg.href, nil)
NilLinkCall ==
    /\ res' = [of |-> "nil", pageMap |-> EmptyPageMap,
               v |-> notionURLToHugoLink(arg.href, NoVal)]
    /\ UNCHANGED <<arg, disk, call, page, meta, out, pagePath, blocks, trace, run>>

NextLink == ResolveLinkCall \/ NilLinkCall

SpecLink == InitLink /\ [][NextLink]_vars

(***************************************************************************)
(* Tables.                                                                 *)
(***************************************************************************)
\* A cell is empty or holds a letter.
TableCells == {<<>>, <<PlainSpan(<<"a">>)>>}

\* The ways to cut a sequence of cells into rows of at least one cell.
RECURSIVE RowsFrom(_)
RowsFrom(cells) ==
    IF cells = <<>> THEN {<<>>}
    ELSE UNION { { <<TableRowBlock(SubSeq(cells, 1, k))>> \o rest :
                     rest \in RowsFrom(SubSeq(cells, k + 1, Len(cells))) } :
                 k \in 1..Len(cells) }

\* The tables of at most MaxTableCells cells, with and without column header.
Tables ==
    { TableBlock(h, rows) :
        h \in BOOLEAN,
        rows \in UNION { RowsFrom(cells) :
                           cells \in SeqsUpTo(TableCells, MaxTableCells) \ {<<>>} } }

InitTable ==
    /\ arg \in Tables
    /\ res = NoVal
    /\ Idle

\* The table rendered with its rows, as renderBlocksRecursive does for a
\* page that holds only the table.
RenderTableCall ==
    /\ res = NoVal
    /\ res' = [of |-> "table",
               v |-> renderBlocksRecursive(<<arg>>, NoVal, <<>>, <<>>).markdown]
    /\ UNCHANGED <<arg, disk, call, page, meta, out, pagePath, blocks, trace, run>>

\* tableRowToMarkdown on one row of the table.
RenderRowCall ==
    /\ res = NoVal
    /\ \E i \in DOMAIN arg.kids :
         res' = [of |-> "table_row", row |-> i,
                 v |-> tableRowToMarkdown(arg.kids[i], NoVal)]
    /\ UNCHANGED <<arg, disk, call, page, meta, out, pagePath, blocks, trace, run>>

NextTable == RenderTableCall \/ RenderRowCall

SpecTable == InitTable /\ [][NextTable]_vars

(***************************************************************************)
(* main: fetch the pages, build the page map, render and write each page.  *)
(***************************************************************************)
IdC ==
    <<"1", "2", "3", "4", "a", "b", "c", "d", "-", "5", "6", "7", "8", "-",
      "4", "e", "f", "0", "-", "9", "a", "b", "c", "-", "d", "e", "f", "0",
      "1", "2", "3", "4", "5", "6", "7", "8">>

\* A third page, a post (/posts/docs/).
DocsPage ==
    WithID([created |-> Created, edited |-> Edited,
            props |-> PropsOf({P(<<"T", "i", "t", "l", "e">>,
                                 TitleProp(<< <<"D", "o", "c", "s">> >>))})],
           IdC)

\* The pages of the database, in the order FetchPages returns them.
SitePages == <<PostPage, AboutPage, DocsPage>>

IdD ==
    <<"9", "9", "9", "9", "a", "b", "c", "d", "-", "1", "1", "1", "1", "-",
      "4", "2", "2", "2", "-", "8", "3", "3", "3", "-", "4", "4", "4", "4",
      "5", "5", "5", "5", "6", "6", "6", "6">>

\* Another page with the title of the post.
TwinPage == WithID(BlogPage, IdD)

\* A database in which two pages have the same title.
TwinPages == <<PostPage, TwinPage, DocsPage>>

PageSeqs == {SitePages, TwinPages}

\* A paragraph that links to the page with the given identifier.
LinkParagraph(id) ==
    Leaf("paragraph",
         <<Span(<<"M">>, Href(NotionHost, << <<"M", "-">> \o ReplaceAllCh(id, "-", <<>>) >>),
                FALSE, FALSE, FALSE, FALSE, FALSE)>>)

\* An image that is cached, then a toggle whose children cannot be fetched.
ImageThenFailing ==
    << Block("image", Caption, FALSE, FALSE, <<>>, FileRef(HostedURL, TRUE), "ok"),
       Block("toggle", <<PlainSpan(<<"f">>)>>, TRUE, TRUE, <<>>, NoVal, "ok") >>

\* An image that is cached.
HostedImage == Block("image", Caption, FALSE, FALSE, <<>>, FileRef(HostedURL, TRUE), "ok")

\* What happens to a page: all goes well, all goes well and the page has an
\* image, GetChildren fails for the page, RenderPage fails, WriteFile fails.
PageFates == {"ok", "media", "children", "render", "write"}

\* The k-th of the first n pages of ps with its fate: its top-level blocks
\* and the answers of the environment.  The page links to the next page,
\* the last to the first.
DbEntry(ps, k, n, fate) ==
    [page |-> ps[k],
     blocks |-> IF fate = "render" THEN ImageThenFailing
                ELSE IF fate = "media"
                     THEN <<HostedImage, LinkParagraph(ps[(k % n) + 1].ID)>>
                     ELSE <<LinkParagraph(ps[(k % n) + 1].ID)>>,
     childrenOk |-> fate # "children",
     writeOk |-> fate # "write"]

DatabasesOf(ps) ==
    UNION { { [k \in 1..n |-> DbEntry(ps, k, n, fates[k])] : fates \in [1..n -> PageFates] } :
            n \in 0..MaxPages }

Databases == UNION { DatabasesOf(ps) : ps \in PageSeqs }

\* The files WriteFile has written: path -> content.
EmptyFiles == [f \in {} |-> NoVal]
writeFile(files, filename, content) ==
    [f \in DOMAIN files \cup {filename} |-> IF f = filename THEN content ELSE files[f]]

\* The values of -out: none, the default, and the name of a section.
OutDirs == {<<>>, <<"content">>, PostsSeg}

\* -out
OutDir == run.outDir

\* finalPath: the filename under the output directory.
FinalPath(filename) ==
    IF OutDir # <<>> /\ ~HasPrefix(filename, OutDir \o <<"/">>)
    THEN OutDir \o <<"/">> \o filename
    ELSE filename

\* A variant of the error test that lets every error pass.
failed_Ignored(err) == FALSE

\* err != nil
failed(err) == err # ""

\* A variant of the end of the page map loop: after the first page.
pageMapDone_AfterFirst(j, n) == j > 1 \/ j > n

\* The loop over the pages that fills the page map has ended.
pageMapDone(j, n) == j > n

\* os.Exit(code) after the call `event`.
exitWith(code, event) ==
    [run EXCEPT !.pc = "exit", !.exit = code, !.log = Append(@, event)]

InitMain ==
    /\ arg \in [fetchOk : BOOLEAN, db : Databases, out : OutDirs]
    /\ run = [pc |-> "FetchPages", outDir |-> arg.out, pages |-> <<>>,
              pageMap |-> EmptyPageMap, j |-> 1, i |-> 1, files |-> EmptyFiles,
              filesGenerated |-> 0, exit |-> 0, log |-> <<>>]
    /\ res = NoVal
    /\ page = NoVal
    /\ meta = NoVal
    /\ out = NoVal
    /\ pagePath = NoVal
    /\ blocks = <<>>
    /\ trace = NoVal
    /\ disk = <<>>
    /\ call = NoCall

\* pages, err := nc.FetchPages(databaseID)
FetchPagesStep ==
    /\ run.pc = "FetchPages"
    /\ run' = IF failed(IF arg.fetchOk THEN "" ELSE "query")
              THEN exitWith(1, [op |-> "FetchPages", err |-> "query"])
              ELSE [run EXCEPT !.pc = "pageMap",
                               !.pages = [k \in DOMAIN arg.db |-> arg.db[k].page],
                               !.log = Append(@, [op |-> "FetchPages", err |-> ""])]
    /\ UNCHANGED <<disk, call, page, meta, out, pagePath, blocks, trace, arg, res>>

\* One round of the loop that fills the page map.
PageMapStep ==
    /\ run.pc = "pageMap"
    /\ ~pageMapDone(run.j, Len(run.pages))
    /\ \E order \in Perms(DOMAIN run.pages[run.j].props) :
         run' = [run EXCEPT !.pageMap = pageMapPut(@, run.pages[run.j], order),
                            !.j = @ + 1,
                            !.log = Append(@, [op |-> "pageMap", i |-> run.j])]
    /\ UNCHANGED <<disk, call, page, meta, out, pagePath, blocks, trace, arg, res>>

\* The page map loop ends and the loop that renders the pages begins.
StartRenderStep ==
    /\ run.pc = "pageMap"
    /\ pageMapDone(run.j, Len(run.pages))
    /\ run' = [run EXCEPT !.pc = "GetChildren"]
    /\ UNCHANGED <<disk, call, page, meta, out, pagePath, blocks, trace, arg, res>>

\* blocks, err := nc.GetChildren(p.ID) for the i-th page.
GetChildrenStep ==
    /\ run.pc = "GetChildren"
    /\ run.i <= Len(run.pages)
    /\ page' = run.pages[run.i]
    /\ IF failed(IF arg.db[run.i].childrenOk THEN "" ELSE "children")
       THEN /\ run' = exitWith(1, [op |-> "GetChildren", i |-> run.i, err |-> "children"])
            /\ UNCHANGED blocks
       ELSE /\ run' = [run EXCEPT !.pc = "RenderPage",
                                  !.log = Append(@, [op |-> "GetChildren", i |-> run.i,
                                                     err |-> ""])]
            /\ blocks' = arg.db[run.i].blocks
    /\ UNCHANGED <<disk, call, meta, out, pagePath, trace, arg, res>>

\* filename, content, err := r.RenderPage(p, blocks, nc.GetChildren, resolve)
RenderPageStep ==
    /\ run.pc = "RenderPage"
    /\ \E order \in Perms(DOMAIN page.props) :
         \E r \in {RenderPage(page, order, blocks, Resolver(run.pageMap), disk)} :
            /\ meta' = r.meta
            /\ out' = r.out
            /\ disk' = r.disk
            /\ trace' = r.trace
            /\ run' = IF failed(r.out.err)
                      THEN exitWith(1, [op |-> "RenderPage", i |-> run.i,
                                        pageMap |-> run.pageMap, err |-> r.out.err])
                      ELSE [run EXCEPT !.pc = "WriteFile",
                                       !.log = Append(@, [op |-> "RenderPage", i |-> run.i,
                                                          pageMap |-> run.pageMap,
                                                          err |-> r.out.err])]
    /\ UNCHANGED <<page, blocks, pagePath, call, arg, res>>

\* w.WriteFile(finalPath, content), then the next page.
WriteFileStep ==
    /\ run.pc = "WriteFile"
    /\ run' = IF failed(IF arg.db[run.i].writeOk THEN "" ELSE "write")
              THEN exitWith(1, [op |-> "WriteFile", i |-> run.i, err |-> "write"])
              ELSE [run EXCEPT !.pc = "GetChildren",
                               !.files = writeFile(@, FinalPath(out.filename), out.content),
                               !.filesGenerated = @ + 1,
                               !.i = @ + 1,
                               !.log = Append(@, [op |-> "WriteFile", i |-> run.i,
                                                  path |-> FinalPath(out.filename),
                                                  content |-> out.content,
                                                  err |-> ""])]
    /\ UNCHANGED <<disk, call, page, meta, out, pagePath, blocks, trace, arg, res>>

\* The loop over the pages has ended: main returns.
FinishStep ==
    /\ run.pc = "GetChildren"
    /\ run.i > Len(run.pages)
    /\ run' = [run EXCEPT !.pc = "exit", !.exit = 0]
    /\ UNCHANGED <<disk, call, page, meta, out, pagePath, blocks, trace, arg, res>>

NextMain ==
    \/ FetchPagesStep
    \/ PageMapStep
    \/ StartRenderStep
    \/ GetChildrenStep
    \/ RenderPageStep
    \/ WriteFileStep
    \/ FinishStep

SpecMain == InitMain /\ [][NextMain]_vars

(***************************************************************************)
(* Claims about the file cache.                                            *)
(***************************************************************************)
SameExceptQuery(u, v) ==
    /\ u.host = v.host /\ u.path = v.path /\ u.ext = v.ext /\ u.bad = v.bad

FullDir(articlePath) == PathJoin(BasePath, PathDir(SplitSlash(articlePath)))

\* C1: two URLs that differ only in their query string get the same local
\* filename from generateFilename (hash prefix and extension), so the file a
\* successful CacheFile call returns is the one every re-signed URL maps to.
C1_SameFilenameUnderResigning ==
    (call.url # NoVal /\ call.err = "") =>
        \A v \in URLs :
            SameExceptQuery(call.url, v) => RelPath(generateFilename(v)) = call.ret

\* C5: once a file exists at the target path of a (document directory, file
\* identifier), a later CacheFile call for a URL with that identifier and
\* that directory fetches nothing, leaves the disk unchanged and returns
\* "./<filename>" of the existing file.
C5_ExistingFileIsNoOp ==
    [][ \A f \in DOMAIN disk :
          ( /\ f.dir = FullDir(call'.articlePath)
            /\ f.name.hash = Hash8(extractFileIdentifier(call'.url)) )
          => ( /\ ~call'.fetched
               /\ disk' = disk
               /\ call'.ret = RelPath(f.name) ) ]_vars

(***************************************************************************)
(* Claims about metadata, front matter and output paths.                   *)
(***************************************************************************)
Rendered == out # NoVal /\ pagePath # NoVal

FmHas(k) == \E e \in out.content.fm : e[1] = k
FmVal(k) == (CHOOSE e \in out.content.fm : e[1] = k)[2]

\* The names of the page's Type select properties.
TypeNames == { page.props[k].name :
                 k \in { k \in DOMAIN page.props :
                           ToLower(k) = KeyType /\ page.props[k].kind = "select" } }

Category(str) == ToLower(TrimSpace(SubSeq(str, 1, IndexCh(str, ":") - 1)))
AfterColon(str) == TrimSpace(SubSeq(str, IndexCh(str, ":") + 1, Len(str)))

\* C6: a page whose Type is "pages:<value>" (category compared without case)
\* has front-matter type <value>, path classification "pages", page path
\* "/{slug}/" and filename "{slug}/index.md".
C6_PagesCompound ==
    Rendered =>
        \A str \in TypeNames :
            (Contains(str, ":") /\ Category(str) = PagesText) =>
                /\ FmHas(KeyType) /\ FmVal(KeyType) = Str(AfterColon(str))
                /\ meta.pathType = PagesText
                /\ pagePath = <<"/">> \o meta.Slug \o <<"/">>
                /\ out.filename = meta.Slug \o <<"/">> \o IndexMd

\* The page path of a sanitised classification and a slug.
PathFor(seg, slug) ==
    IF seg = <<>> THEN <<"/">> \o PostsSeg \o <<"/">> \o slug \o <<"/">>
    ELSE IF seg = PagesText THEN <<"/">> \o slug \o <<"/">>
    ELSE <<"/">> \o seg \o <<"/">> \o slug \o <<"/">>

C8_FilenameMirrorsPagePath ==
    Rendered => out.filename = Tail(pagePath) \o IndexMd

\* The formatted starts of the page's Date properties that have a value.
DateStarts == { Format(page.props[k].start) :
                  k \in { k \in DOMAIN page.props :
                            /\ ToLower(k) = KeyDate
                            /\ page.props[k].kind = "date"
                            /\ page.props[k].start # NoVal } }

\* C9: the front-matter date is the start of the page's Date property when
\* that property has a value, and the page's creation time otherwise.
C9_DatePriority ==
    out # NoVal =>
        IF DateStarts # {}
        THEN FmHas(KeyDate) /\ \E d \in DateStarts : FmVal(KeyDate) = Str(d)
        ELSE page.created # ZeroTime =>
                FmHas(KeyDate) /\ FmVal(KeyDate) = Str(Format(page.created))

C9_Witness ==
    /\ out # NoVal
    /\ page.created = Created
    /\ DateStarts = {Format(CustomDate)}
    /\ FmVal(KeyDate) = Str(Format(CustomDate))

\* The page has a Status property whose name is "draft" in some letter case.
StatusIsDraft ==
    \E k \in DOMAIN page.props :
        /\ ToLower(k) = KeyStatus
        /\ page.props[k].kind = "status"
        /\ ToLower(page.props[k].name) = KeyDraft

\* C10: the front matter has draft: true exactly when the page's Status is
\* "draft" in some letter case, and has no draft key at all otherwise.
C10_DraftIffStatusDraft ==
    out # NoVal =>
        IF StatusIsDraft
        THEN FmHas(KeyDraft) /\ FmVal(KeyDraft) = Bool(TRUE)
        ELSE ~FmHas(KeyDraft)

\* C11: for a page with a last-edited time, the front-matter lastmod is that
\* time, whatever properties the page has.
C11_LastmodIsLastEdited ==
    (out # NoVal /\ page.edited # ZeroTime) =>
        FmHas(KeyLastmod) /\ FmVal(KeyLastmod) = Str(Format(page.edited))

\* The property names parseMetadata treats specially, in lower case.
SpecialKeys == {KeyTitle, KeyName, KeySlug, KeyDate, KeyType, KeyStatus}

\* The generic value of a property: first plain-text fragment, formatted
\* date, option name, or the option names in their order.
Coerced(p) ==
    CASE p.kind \in {"title", "rich_text"} -> Str(p.texts[1])
      [] p.kind = "date" -> Str(Format(p.start))
      [] p.kind \in {"select", "status"} -> Str(p.name)
      [] p.kind = "multi_select" -> List(p.names)

HasValue(p) ==
    /\ p.kind \in {"title", "rich_text", "date", "select", "multi_select", "status"}
    /\ p.kind \in {"title", "rich_text"} => Len(p.texts) > 0
    /\ p.kind = "date" => p.start # NoVal

\* C18: every property with a value whose lower-cased name is not title,
\* name, slug, date, type or status, and whose type is title, rich text,
\* date, select, multi-select or status, is in the front matter under its
\* own name with its generic value.
C18_DynamicProperties ==
    out # NoVal =>
        \A k \in DOMAIN page.props :
            (ToLower(k) \notin SpecialKeys /\ HasValue(page.props[k])) =>
                FmHas(k) /\ FmVal(k) = Coerced(page.props[k])

(***************************************************************************)
(* Claims about rendering.                                                 *)
(***************************************************************************)
Done == out # NoVal

ListLike(b) == b.kind \in ListKinds

\* C2: in the body RenderPage produces, two adjacent top-level blocks with
\* non-empty fragments are separated by exactly one newline when both are
\* list items (bulleted, numbered, to-do) and by exactly one blank line
\* otherwise; the body is the fragments and these separators, nothing else.
C2_TopLevelSpacing ==
    (Done /\ out.err = "") =>
        /\ Len(trace.pieces) = Len(blocks)
        /\ out.content.body = Concat([i \in DOMAIN trace.pieces |->
                                        trace.pieces[i].sep \o trace.pieces[i].s])
        /\ \A i \in DOMAIN trace.pieces :
             /\ trace.pieces[i].s # <<>> =>
                    Head(trace.pieces[i].s) # NL
                    /\ trace.pieces[i].s[Len(trace.pieces[i].s)] # NL
             /\ (i > 1 /\ trace.pieces[i - 1].s # <<>> /\ trace.pieces[i].s # <<>>) =>
                    trace.pieces[i].sep =
                        IF ListLike(blocks[i - 1]) /\ ListLike(blocks[i])
                        THEN <<NL>> ELSE <<NL, NL>>

C2_Witness ==
    /\ Done /\ out.err = ""
    /\ Len(blocks) = 3
    /\ blocks[1].kind = "paragraph" /\ blocks[1].text # <<>>
    /\ blocks[2].kind = "bulleted_list_item" /\ ~blocks[2].has
    /\ blocks[3].kind = "bulleted_list_item" /\ ~blocks[3].has
    /\ out.content.body = <<"p", NL, NL, "-", " ", "b", NL, "-", " ", "b">>

\* C3: when getChildren fails for a block, at any depth, RenderPage returns
\* that error with an empty filename and empty content, and the failing call
\* is the last getChildren call of the render.
C3_GetChildrenErrorAborts ==
    Done =>
        \A i \in DOMAIN trace.fetches :
            trace.fetches[i].failed =>
                /\ i = Len(trace.fetches)
                /\ out.err = "getChildren"
                /\ out.filename = <<>>
                /\ out.content = EmptyContent

\* A failure below the top level, with a later top-level block that has
\* children of its own and is never asked for them.
C3_Witness ==
    /\ Done /\ out.err = "getChildren"
    /\ Len(blocks) = 2
    /\ blocks[2].has
    /\ Len(trace.fetches) = 2
    /\ trace.fetches[2] = [id |-> <<1, 1>>, failed |-> TRUE]

\* The plain text of a rich text.
PlainText(arr) == Concat([i \in DOMAIN arr |-> arr[i].PlainText])

RECURSIVE BlockAt(_, _)
BlockAt(bs, id) ==
    IF Len(id) = 1 THEN bs[id[1]] ELSE BlockAt(bs[id[1]].kids, Tail(id))

\* The fragment of a captioned file block that shows the given URL.
Shows(b, url) ==
    CASE b.kind = "image" -> <<"!", "[">> \o PlainText(b.text) \o <<"]", "(">> \o url \o <<")">>
      [] b.kind = "file" -> <<"[">> \o PlainText(b.text) \o <<"]", "(">> \o url \o <<")">>
      [] b.kind = "pdf" -> <<"{{< pdf src=\"">> \o url \o <<"\" >}}">>
      [] b.kind = "video" -> <<"{{< video src=\"">> \o url \o <<"\" >}}">>

Occurs(sub, s) ==
    \E i \in 0..(Len(s) - Len(sub)) : SubSeq(s, i + 1, i + Len(sub)) = sub

\* C4: a failing CacheFile call (directory, transport, status or write
\* error) for a Notion-hosted image, file, PDF or video does not fail the
\* page: RenderPage returns no error and the block's fragment shows the
\* original remote URL.
C4_CacheFailureFallsBack ==
    Done =>
        /\ out.err = ""
        /\ \A i \in DOMAIN trace.cache :
             trace.cache[i].err # "" =>
                LET id == trace.cache[i].id
                    shown == Shows(BlockAt(blocks, id), URLString(trace.cache[i].url))
                IN  IF Len(id) = 1
                    THEN trace.pieces[id[1]].s = shown
                    ELSE Occurs(shown, out.content.body)

C4_Witness ==
    /\ Done /\ out.err = ""
    /\ Len(trace.cache) = 2
    /\ trace.cache[1].err = "mkdir"
    /\ trace.cache[2].err = "http"
    /\ Occurs(URLString(HostedURL), out.content.body)

(***************************************************************************)
(* Claims about functions on text.                                         *)
(***************************************************************************)
LowerLetters ==
    {"a", "b", "c", "d", "e", "f", "g", "h", "i", "j", "k", "l", "m",
     "n", "o", "p", "q", "r", "s", "t", "u", "v", "w", "x", "y", "z"}
DecimalDigits == {"0", "1", "2", "3", "4", "5", "6", "7", "8", "9"}

\* C12: whatever slugify returns, and whatever slug parseMetadata produces,
\* holds only lower-case letters a-z, digits, hyphens and underscores.
C12_SlugCharset ==
    res # NoVal =>
        \A i \in DOMAIN res.v :
            res.v[i] \in LowerLetters \cup DecimalDigits \cup {"-", "_"}

C12_Witness ==
    /\ res # NoVal
    /\ arg = <<"A", " ", "!">>
    /\ res.v = <<"a", "-">>


(***************************************************************************)
(* Claims about rich text (SpecText).                                      *)
(***************************************************************************)
\* The markers of the annotations.
BoldMark == <<"*", "*">>
ItalicMark == <<"*">>
StrikeMark == <<"~", "~">>
Opening(on, mark) == IF on THEN mark ELSE <<>>

\* The text around which the wrappers go, inside the link if there is one.
Linked(t, inner) ==
    IF t.Href = NoHref THEN inner
    ELSE <<"[">> \o inner \o <<"]", "(">> \o HrefString(t.Href) \o <<")">>

\* The wrappers with the underline tag outermost and the bold markers innermost.
UnderlineOutermost(t, txt) ==
    Opening(t.Underline, <<"<u>">>) \o Opening(t.Strikethrough, StrikeMark)
        \o Opening(t.Italic, ItalicMark) \o Opening(t.Bold, BoldMark)
        \o txt
        \o Opening(t.Bold, BoldMark) \o Opening(t.Italic, ItalicMark)
        \o Opening(t.Strikethrough, StrikeMark) \o Opening(t.Underline, <<"</u>">>)

\* The wrappers with the bold markers outermost and the underline tag innermost.
BoldOutermost(t, txt) ==
    Opening(t.Bold, BoldMark) \o Opening(t.Italic, ItalicMark)
        \o Opening(t.Strikethrough, StrikeMark) \o Opening(t.Underline, <<"<u>">>)
        \o txt
        \o Opening(t.Underline, <<"</u>">>) \o Opening(t.Strikethrough, StrikeMark)
        \o Opening(t.Italic, ItalicMark) \o Opening(t.Bold, BoldMark)

\* The text of the span as it shows between the wrappers: brackets escaped
\* when the span is a link, as they are.
Shown(t) == IF t.Href = NoHref THEN t.PlainText ELSE escapeMarkdown(t.PlainText)

\* C13 (as the code has it): a span without the code annotation is wrapped
\* bold first and underline last, so the bold markers are innermost and the
\* underline tag outermost (underline, strikethrough, italic, bold from
\* outermost to innermost), and rendering it a second time gives the same.
C13_UnderlineOutermost ==
    (res # NoVal /\ ~arg[1].Code) =>
        /\ res.v = Linked(arg[1], UnderlineOutermost(arg[1], Shown(arg[1])))
        /\ res.again # NoVal => res.again.v = res.v

\* C13 (as stated): a span without the code annotation is wrapped with the
\* bold markers outermost and the underline tag innermost (bold, italic,
\* strikethrough, underline from outermost to innermost), and rendering it a
\* second time gives the same.
C13_BoldOutermost ==
    (res # NoVal /\ ~arg[1].Code) =>
        /\ res.v = Linked(arg[1], BoldOutermost(arg[1], Shown(arg[1])))
        /\ res.again # NoVal => res.again.v = res.v

C13_Witness ==
    /\ res # NoVal /\ res.again # NoVal
    /\ arg = <<Span(<<"a">>, NoHref, FALSE, TRUE, TRUE, TRUE, TRUE)>>
    /\ res.v = <<"<u>", "~", "~", "*", "*", "*", "a", "*", "*", "*", "~", "~", "</u>">>

\* C14: every "[" and "]" of a span's text comes out with a backslash before
\* it, link or not, except in a code span, which comes out in backticks with
\* only its backticks escaped and without any other wrapper.
C14_BracketsEscaped ==
    res # NoVal =>
        res.v = Linked(arg[1],
                       IF arg[1].Code
                       THEN <<Backtick>> \o escapeBackticks(arg[1].PlainText)
                                \o <<Backtick>>
                       ELSE UnderlineOutermost(arg[1], escapeMarkdown(arg[1].PlainText)))


(***************************************************************************)
(* Claims about links (SpecLink).                                          *)
(***************************************************************************)
\* The link goes to the platform and has a last path segment.
PlatformLink(h) == ~h.bad /\ Contains(h.host, "notion.so") /\ h.segs # <<>>
LastSegment(h) == h.segs[Len(h.segs)]

\* The identifier without its hyphens.
Hyphenless(id) == Filter(id, HexChars)

\* What is left of the last segment before the identifier, the hyphen that
\* separates the two removed.
TitleFragment(last, idForm) == TrimSuffix(TrimSuffix(last, idForm), <<"-">>)

PostsLinkTo(slug) == <<"/", "p", "o", "s", "t", "s", "/">> \o slug \o <<"/">>

\* C15: with the page map main builds, a link to the platform whose last
\* path segment ends with the identifier of a page of the database, with or
\* without hyphens, after a title or not, becomes exactly that page's path.
C15_LinkResolvesToPagePath ==
    (res # NoVal /\ res.of = "resolve" /\ PlatformLink(arg.href)) =>
        \A i \in DOMAIN arg.pages :
            (\/ HasSuffix(LastSegment(arg.href), arg.pages[i].ID)
             \/ HasSuffix(LastSegment(arg.href), Hyphenless(arg.pages[i].ID)))
            => \E order \in Perms(DOMAIN arg.pages[i].props) :
                  res.v = GetPagePath(arg.pages[i], order)

C15_Witness ==
    /\ res # NoVal /\ res.of = "resolve"
    /\ arg.pages = <<PostPage, AboutPage>>
    /\ arg.href = Href(NotionHost, << <<"M", "-">> \o IdB >>)
    /\ res.v = <<"/", "a", "b", "o", "u", "t", "/">>

\* C16: when the link holds an identifier that the resolver does not know,
\* or the resolver is nil, the result is /posts/{slug}/ with the slug of the
\* title left before the identifier, and the identifier without hyphens when
\* no title is left.
C16_FallbackLink ==
    (res # NoVal /\ PlatformLink(arg.href)) =>
        \A id \in {IdA, IdB, IdOther} : \A idForm \in {id, Hyphenless(id)} :
            (/\ HasSuffix(LastSegment(arg.href), idForm)
             /\ Hyphenless(id) \notin DOMAIN res.pageMap)
            => LET title == TitleFragment(LastSegment(arg.href), idForm)
               IN  /\ (title # <<>> /\ slugify(title) # <<>>)
                        => res.v = PostsLinkTo(slugify(title))
                   /\ title = <<>>
                        => res.v \in {Hyphenless(id), PostsLinkTo(Hyphenless(id))}


(***************************************************************************)
(* Claims about tables (SpecTable).                                        *)
(***************************************************************************)
\* The lines of the rendered table and the cells of a line: what lies
\* between its first and its last "|".
TableOutput == SplitOn(res.v, NL)
CellCount(line) == Len(SplitOn(line, "|")) - 2

\* The greatest number of cells among the rows of the table.
WidestRow(table) ==
    CHOOSE n \in {Len(table.kids[i].Cells) : i \in DOMAIN table.kids} :
        \A i \in DOMAIN table.kids : Len(table.kids[i].Cells) <= n

\* Some row of the table has a cell with text.
HasNonEmptyRow(table) ==
    \E i \in DOMAIN table.kids : \E j \in DOMAIN table.kids[i].Cells :
        table.kids[i].Cells[j] # <<>>

DashCells(n) == <<"|">> \o Concat([i \in 1..n |-> <<" ", "-", "-", "-", " ", "|">>])

\* C17: a table with a non-empty row comes out with the same number of
\* cells in every row, that of its widest row; with the header flag the
\* second line is the separator row of one --- per column, and without the
\* flag no line is a separator row.
C17_TableShape ==
    (res # NoVal /\ res.of = "table" /\ HasNonEmptyRow(arg)) =>
        /\ \A i \in DOMAIN TableOutput : CellCount(TableOutput[i]) = WidestRow(arg)
        /\ arg.HasColumnHeader =>
              /\ Len(TableOutput) >= 2
              /\ TableOutput[2] = DashCells(WidestRow(arg))
        /\ ~arg.HasColumnHeader =>
              \A i \in DOMAIN TableOutput : ~Contains(TableOutput[i], "-")


(***************************************************************************)
(* Claims about main (SpecMain).                                           *)
(***************************************************************************)
\* The identifiers of the fetched pages, without hyphens.
PageIds == { Hyphenless(run.pages[k].ID) : k \in DOMAIN run.pages }

\* The page the i-th page links to: the next one, the first after the last.
LinkedPage(i) == run.pages[(i % Len(run.pages)) + 1]

LinkTo(path) == <<"[", "M", "]", "(">> \o path \o <<")">>

\* C19: no entry is put into the page map after a RenderPage call; every
\* RenderPage call sees the map with all pages in it, the same map, and a
\* link to another page of the database, later pages included, comes out as
\* that page's path.
C19_PageMapCompleteBeforeRender ==
    /\ \A k \in DOMAIN run.log :
          run.log[k].op = "RenderPage" =>
             /\ \A m \in DOMAIN run.log : run.log[m].op = "pageMap" => m < k
             /\ DOMAIN run.log[k].pageMap = PageIds
             /\ run.log[k].pageMap = run.pageMap
    /\ run.pc = "WriteFile" =>
          \E order \in Perms(DOMAIN LinkedPage(run.i).props) :
              HasSuffix(out.content.body, LinkTo(GetPagePath(LinkedPage(run.i), order)))

C19_Witness ==
    /\ run.pc = "WriteFile"
    /\ Len(run.pages) = 2
    /\ run.i = 1
    /\ out.content.body = LinkTo(<<"/", "a", "b", "o", "u", "t", "/">>)

\* The Markdown file of a page and the directory it lies in.
MarkdownPath(p) ==
    FinalPath(buildFilename(parseMetadata(p, CHOOSE o \in Perms(DOMAIN p.props) : TRUE)))
ArticleDir(p) ==
    PathJoin(BasePath,
             PathDir(SplitSlash(buildFilename(
                 parseMetadata(p, CHOOSE o \in Perms(DOMAIN p.props) : TRUE)))))

\* The run has just failed in GetChildren or RenderPage for the i-th page.
FailedAt(i) ==
    /\ run.log # <<>>
    /\ run.log[Len(run.log)].op \in {"GetChildren", "RenderPage"}
    /\ run.log[Len(run.log)].err # ""
    /\ run.log[Len(run.log)].i = i

\* What holds after a failure whatever the page: the run has ended with exit
\* code 1, the Markdown files of the pages before are there and no other,
\* and no call was made for a later page.
AbortedAt(i) ==
    /\ run.pc = "exit" /\ run.exit = 1
    /\ ~ENABLED NextMain
    /\ DOMAIN run.files = { MarkdownPath(run.pages[k]) : k \in 1..(i - 1) }
    /\ \A m \in DOMAIN run.log :
          run.log[m].op \in {"GetChildren", "RenderPage", "WriteFile"} => run.log[m].i <= i

FetchFailed ==
    (run.pc = "exit" /\ ~arg.fetchOk) =>
        /\ run.exit = 1
        /\ run.files = EmptyFiles
        /\ disk = <<>>
        /\ Len(run.log) = 1

RECURSIVE FlaggedPreorder(_, _)
FlaggedPreorder(bs, at) ==
    Concat([i \in DOMAIN bs |->
              IF bs[i].has
              THEN <<Append(at, i)>> \o FlaggedPreorder(bs[i].kids, Append(at, i))
              ELSE <<>>])

\* The identifiers getChildren was called with, in the order of the calls.
FetchedIds == [i \in DOMAIN trace.fetches |-> trace.fetches[i].id]

\* C21: once RenderPage has returned, the getChildren calls it made are, in
\* this order, the blocks whose has-children flag is set, in depth-first
\* pre-order, each once with its own identifier and no other block; a render
\* that a failing call ended made a prefix of these calls.
C21_FetchOncePreorder ==
    Done =>
        LET expected == FlaggedPreorder(blocks, <<>>)
        IN  /\ Len(FetchedIds) <= Len(expected)
            /\ FetchedIds = SubSeq(expected, 1, Len(FetchedIds))
            /\ out.err = "" => FetchedIds = expected

\* The lines of a text.
Lines(s) == SplitOn(s, NL)

Blank(l) == TrimSpace(l) = <<>>

\* Lines with every non-blank one moved right by four spaces.
Indented(ls) == [i \in DOMAIN ls |-> IF Blank(ls[i]) THEN ls[i] ELSE Indent4 \o ls[i]]

RECURSIVE Spaces(_)
Spaces(n) == IF n = 0 THEN <<>> ELSE <<" ">> \o Spaces(n - 1)

\* The fragment renderBlock returns for the block with the given identifier.
Fragment(id) ==
    renderBlock(BlockAt(blocks, id), id, NoVal, RenderState(<<>>), out.filename).s

\* The marker and text of a list item, without its children.
OwnLine(b) == blockToMarkdownWithCache(b, <<>>, NoVal, <<>>, <<>>).s

\* A forest of list items only, all children fetched.
RECURSIVE PureList(_)
PureList(bs) == \A i \in DOMAIN bs : ListLike(bs[i]) /\ ~bs[i].fail /\ PureList(bs[i].kids)

\* The lines such a forest is expected to give at depth d.
RECURSIVE ListPreorder(_, _)
ListPreorder(bs, d) ==
    Concat([i \in DOMAIN bs |->
              <<Spaces(4 * d) \o OwnLine(bs[i])>> \o ListPreorder(bs[i].kids, d + 1)])

\* C22: under a bulleted, numbered or to-do item every non-blank line of a
\* child's fragment enters the parent's fragment moved right by four spaces
\* and a blank line enters it unchanged; under any other parent the lines
\* enter unchanged.  Hence a tree of list items renders as one line per
\* item, in pre-order, the item with d ancestors after exactly 4*d spaces.
C22_ListChildrenIndented ==
    (Done /\ out.err = "") =>
        /\ (blocks # <<>> /\ PureList(blocks)) =>
                Lines(out.content.body) = ListPreorder(blocks, 0)
        /\ \A n \in DOMAIN FetchedIds :
              LET id == FetchedIds[n]
                  parent == BlockAt(blocks, id)
              IN  \A j \in DOMAIN parent.kids :
                     LET s == Fragment(Append(id, j))
                     IN  /\ Lines(IndentChild(parent.kind, s)) =
                                IF ListLike(parent) THEN Indented(Lines(s)) ELSE Lines(s)
                         /\ (ListLike(parent) /\ s # <<>>) =>
                                Occurs(Indented(Lines(s)), Lines(Fragment(id)))

\* An item under an item under an item, and a list item whose child has a
\* line of white space only.
C22_Witness ==
    /\ Done /\ out.err = ""
    /\ \/ out.content.body =
            <<"-", " ", "h", NL>> \o Indent4 \o <<"-", " ", "h", NL>>
                \o Indent4 \o Indent4 \o <<"-", " ", "b">>
       \/ out.content.body =
            <<"-", " ", "h", NL>> \o Indent4 \o <<"p", NL, " ", NL>> \o Indent4 \o <<"q">>

\* The non-blank lines of a text, each without its leading white space.
RECURSIVE TextLines(_)
TextLines(ls) ==
    IF ls = <<>> THEN <<>>
    ELSE IF Blank(Head(ls)) THEN TextLines(Tail(ls))
    ELSE <<TrimLeft(Head(ls))>> \o TextLines(Tail(ls))

\* The text s appears in the text t, line by line, whatever the indentation.
Appears(s, t) == Occurs(TextLines(Lines(s)), TextLines(Lines(t)))

\* C24: in a render without error, for every block whose children were
\* fetched, of any kind, the fragment of each child that is not empty appears
\* in the block's own fragment and in the page body.
C24_ChildFragmentKept ==
    (Done /\ out.err = "") =>
        \A n \in DOMAIN FetchedIds :
            LET id == FetchedIds[n]
            IN  \A j \in DOMAIN BlockAt(blocks, id).kids :
                   LET s == Fragment(Append(id, j))
                   IN  s # <<>> =>
                          /\ Appears(s, Fragment(id))
                          /\ Appears(s, out.content.body)

\* C30: in a render without error, the lines of each child fragment of a
\* toggle whose children were fetched stand in the toggle's fragment as they
\* stand in the child's own fragment, leading white space included.
C30_EmbeddedLinesKeepIndentation ==
    (Done /\ out.err = "") =>
        \A n \in DOMAIN FetchedIds :
            LET id == FetchedIds[n]
            IN  BlockAt(blocks, id).kind = "toggle" =>
                   \A j \in DOMAIN BlockAt(blocks, id).kids :
                      Fragment(Append(id, j)) # <<>> =>
                         Occurs(Lines(Fragment(Append(id, j))), Lines(Fragment(id)))

(***************************************************************************)
(* More claims about the file cache.                                       *)
(***************************************************************************)
\* The cache path a CacheFile call is about.
TargetPath(c) == [dir |-> FullDir(c.articlePath), name |-> generateFilename(c.url)]

\* C25: a CacheFile call that returns an error leaves the disk as it was and
\* no file at its target path, so that the next call for that path finds no
\* file and downloads again.
C25_FailedCallLeavesNoFile ==
    [][ call'.err # "" => (disk' = disk /\ TargetPath(call') \notin DOMAIN disk') ]_vars

\* Process p has downloaded its file and written it.
Downloaded(p) == res[p].pc = "done" /\ res[p].fetched /\ res[p].err = ""

\* One of the two calls made its existence check while the other was
\* between its own check and the end of its download.
Overlapping(p, q) == q \in res[p].during \/ p \in res[q].during

SameDirAndIdentifier(p, q) ==
    /\ FullDir(arg[p].articlePath) = FullDir(arg[q].articlePath)
    /\ extractFileIdentifier(arg[p].url) = extractFileIdentifier(arg[q].url)

\* C23: two calls for the same directory and identifier both download and
\* write only when they overlap, the second check falling between the
\* first call's check and its write; of calls made one after the other at
\* most one downloads with success.
C23_OneDownloadUnlessConcurrent ==
    \A p, q \in Procs :
        (p # q /\ Downloaded(p) /\ Downloaded(q) /\ SameDirAndIdentifier(p, q))
            => /\ Overlapping(p, q)
               /\ TargetPath(arg[p]) = TargetPath(arg[q])

(***************************************************************************)
(* More claims about metadata and front matter.                            *)
(***************************************************************************)
\* C29: when the front matter has a slug key, its value is the slug of the
\* page's filename and of its page path, that is, the slugified one.
C29_FrontMatterSlugIsPathSlug ==
    (Rendered /\ FmHas(KeySlug)) =>
        /\ FmVal(KeySlug) = Str(meta.Slug)
        /\ pagePath = PathFor(slugify(meta.pathType), FmVal(KeySlug).v)
        /\ out.filename = buildFilename([meta EXCEPT !.Slug = FmVal(KeySlug).v])

\* C28: what RenderPage returned is what it returns for the same page, blocks
\* and disk whatever the order in which the page's properties are iterated.
C28_RenderPageDeterministic ==
    out # NoVal =>
        \A order \in Perms(DOMAIN page.props) :
            RenderPage(page, order, blocks, NoVal, <<>>).out = out

(***************************************************************************)
(* Claims about the output directory and the files of a run.               *)
(***************************************************************************)
\* The directory main writes the Markdown file with the given filename to.
MarkdownDir(filename) == PathDir(DropEmpty(SplitSlash(FinalPath(filename))))

\* C26: when RenderPage has returned for a page, the directory the file
\* cache stores the page's media in is the directory main writes the page's
\* index.md to, whatever the output directory, and every cached file lies
\* beside the index.md of a page rendered so far.
C26_MediaBesideIndexMd ==
    run.pc = "WriteFile" =>
        /\ FullDir(out.filename) = MarkdownDir(out.filename)
        /\ \A f \in DOMAIN disk :
              \E k \in 1..run.i :
                  f.dir = PathDir(DropEmpty(SplitSlash(MarkdownPath(run.pages[k]))))

\* C27: the files a run has written are as many as the pages it has counted
\* as generated, and each of them holds the content rendered for the page
\* it was written for; after a successful run there is one file per page.
C27_OneFilePerPage ==
    /\ Cardinality(DOMAIN run.files) = run.filesGenerated
    /\ \A k \in DOMAIN run.log :
          (run.log[k].op = "WriteFile" /\ run.log[k].err = "") =>
              run.files[run.log[k].path] = run.log[k].content
    /\ (run.pc = "exit" /\ run.exit = 0) =>
          Cardinality(DOMAIN run.files) = Len(run.pages)

====
